---- MODULE Spec2Model ----
(***************************************************************************)
(* Media rotation and fetch orchestration of rhythm-gif-scroller.          *)
(*                                                                         *)
(* The repository holds several variants of the same service.  Three are   *)
(* modelled, each under its own specification:                             *)
(*   SpecScroller  ScrollerService of src/src/utils/scrollerService.ts     *)
(*                 (lines 1-343: fetchMedia with retry, getNextItem)       *)
(*   SpecIndex     ScrollerService of src/src/pages/Index.tsx              *)
(*                 (lines 542-888: same service, with clearCache)          *)
(*   SpecRedgifs   RedgifsServiceClass of src/src/utils/redgifsService.ts  *)
(*                 (cursor based sequencer with a keyed result cache)      *)
(* SpecServices runs either ScrollerService of scrollerService.ts or       *)
(* RedgifsServiceClass, chosen in the initial state.                       *)
(*                                                                         *)
(* JavaScript runs one task at a time.  Every action below is one          *)
(* synchronous run of code between two suspension points (await, timer).   *)
(* A promise continuation (microtask) runs before any other timer or       *)
(* network callback: the actions that are callbacks are guarded by         *)
(* Quiescent, the continuations are not.                                   *)
(***************************************************************************)
EXTENDS Integers, Sequences, FiniteSets, Bags, TLC

\* ---------------------------------------------------------------- bounds
\* Largest batch an upstream source answers with (the code asks for 20/30).
MaxBatch == 6
\* Background refill calls of fetchMedia that may be active at once.
MaxRefill == 1
\* Refill timers (setTimeout 100 ms) that may be pending at once.
MaxTimers == 1

\* ------------------------------------------------------ program constants
MAX_RETRIES == 3
LOW_WATER == 5
FETCH_LIMIT == 20
FALLBACK_COUNT == 2

\* ------------------------------------------------------------ variables
VARIABLES
    sut,          \* which service this behaviour runs
    cachedItems,  \* ScrollerService.cachedItems
    isFetching,   \* ScrollerService.isFetching
    retryCount,   \* ScrollerService.retryCount
    frame,        \* the fetchMedia calls (0: the one getNextItem awaits)
    timers,       \* pending refill timers
    gpc,          \* position of the getNextItem call: "idle" or "await"
    ret,          \* what a getNextItem call has just resolved to
    ans,          \* the secondary answer that has just been handled
    obs           \* history of one observed fetchMedia call

scrollerVars ==
    <<cachedItems, isFetching, retryCount, frame, timers, gpc, ret, ans, obs>>

\* The argument a function of the services is applied to and what it
\* returned, for the functions that are followed on their own.
VARIABLES
    input,
    output

pureVars == <<input, output>>

NoOutput == [fn |-> "none"]

InitPureVars == input = [fn |-> "none"] /\ output = NoOutput

\* ---------------------------------------------------------------- items
\* A MediaItem: the source that produced it, whether the settings its
\* request was built from were dropped by a later clearCache(), and its
\* position in the batch.
Item(src, stale, i) == [src |-> src, stale |-> stale, i |-> i]
NullItem == Item("null", FALSE, 0)
RejectedItem == Item("rejected", FALSE, 0)
IsMedia(item) ==
    item.src \in {"primary", "secondary", "mock", "fallback", "search", "trending"}

Batch(src, stale, n) == [i \in 1..n |-> Item(src, stale, i)]

SizesOf(outcome) == IF outcome = "ok" THEN {1, MaxBatch} ELSE {0}


\* generateMockData(limit): limit items.
generateMockData(stale) == Batch("mock", stale, FETCH_LIMIT)

\* generateFallbackItems(): two fixed items.
generateFallbackItems(stale) == Batch("fallback", stale, FALLBACK_COUNT)

\* --------------------------------------------------------------- frames
Frames == 0..MaxRefill
RefillFrames == 1..MaxRefill

\* A fetchMedia call: where it is suspended, whether clearCache() ran since
\* its settings were taken, whether it waits for the secondary answer
\* because the primary answer held no usable item, and, once it has returned, by which
\* path and with what.
IdleFrame ==
    [pc |-> "idle", stale |-> FALSE, zero |-> FALSE, outcome |-> "none",
     result |-> <<>>]

Active(fr) == fr.pc \in {"primary", "secondary", "backoff"}
InFlight(fr) == fr.pc \in {"primary", "secondary"}

\* No promise continuation is pending: timer and network callbacks may run.
Quiescent == \A f \in Frames : frame[f].pc # "done"

TimerCount == timers.fresh + timers.stale

\* The record of a getNextItem return, kept for the one state that follows
\* the return (every other step resets it to NoReturn): the value, whether
\* clearCache() ran while the call was waiting, the length of the list the
\* awaited fetchMedia resolved to (-1: nothing was awaited), the items left
\* in cachedItems and whether a refill timer was set.
Return(val, stale, fetched, left, scheduled) ==
    [val |-> val, stale |-> stale, fetched |-> fetched, left |-> left,
     scheduled |-> scheduled]
NoReturn == Return(Item("none", FALSE, 0), FALSE, -1, 0, FALSE)

\* The record of an answer of the secondary source, kept for the one state
\* that follows its handling: the frame, the outcome, the number of items and
\* retryCount as it was when the answer arrived.
Answer(f, outcome, n) ==
    [f |-> f, outcome |-> outcome, n |-> n, rc |-> retryCount]
NoAnswer == [f |-> -1, outcome |-> "none", n |-> 0, rc |-> 0]

\* The history of one fetchMedia call, chosen when the call starts: the
\* frame it runs in (-1 while no call is followed), whether no other call
\* was active when it started or has started since, the backoff waits it
\* took (MAX_RETRIES + 1 stands for more) and whether every answer it got
\* was a transport failure.
ObsStart(f, track) ==
    IF track
    THEN [f |-> f, alone |-> \A o \in Frames \ {f} : ~Active(frame[o]),
          retries |-> 0, allFailed |-> TRUE]
    ELSE IF obs.f \notin {-1, f} THEN [obs EXCEPT !.alone = FALSE]
    ELSE obs
ObsAnswer(f, failed) ==
    IF obs.f = f THEN [obs EXCEPT !.allFailed = @ /\ failed] ELSE obs
ObsRetry(o, f) ==
    IF o.f = f THEN [o EXCEPT !.retries = IF @ < MAX_RETRIES THEN @ + 1 ELSE MAX_RETRIES + 1] ELSE o
ObsEnd(f) ==
    IF obs.f = f
    THEN [f |-> -1, alone |-> TRUE, retries |-> 0, allFailed |-> TRUE]
    ELSE obs
\* Whether the history of a call that starts may be chosen for observation.
MayTrack == IF obs.f = -1 THEN BOOLEAN ELSE {FALSE}

InitScrollerVars ==
    /\ cachedItems = <<>>
    /\ isFetching = FALSE
    /\ retryCount = 0
    /\ frame = [f \in Frames |-> IdleFrame]
    /\ timers = [fresh |-> 0, stale |-> 0]
    /\ gpc = "idle"
    /\ ret = NoReturn
    /\ ans = NoAnswer
    /\ obs = [f |-> -1, alone |-> TRUE, retries |-> 0, allFailed |-> TRUE]

\* Outcomes of a request (fetch + response.json() + extraction).
\*   neterr   fetch() rejects
\*   http     !response.ok, throw
\*   badjson  response.json() rejects
\*   procerr  the extraction of the items throws
\*   zero     the answer holds no usable item
\*   ok       n > 0 items
Outcomes == {"neterr", "http", "badjson", "procerr", "zero", "ok"}
TransportFailures == {"neterr", "http", "badjson"}

\* The synchronous head of fetchMedia on an idle frame: isFetching is set
\* and the primary request is issued.
StartFrame(f, stale) ==
    [frame EXCEPT ![f] =
        [pc |-> "primary", stale |-> stale, zero |-> FALSE, outcome |-> "none",
         result |-> <<>>]]

\* return (or throw) from fetchMedia: the frame's promise is settled.
Settle(fr, outcome, result) ==
    [fr EXCEPT !.pc = "done", !.zero = FALSE, !.outcome = outcome,
               !.result = result]

\* The lowest idle refill frame.
FreeRefill(f) ==
    /\ frame[f].pc = "idle"
    /\ \A o \in RefillFrames : o < f => frame[o].pc # "idle"

\* ================================================================
\* The state of the Player page and of its hook useMediaPlayer,
\* src/unnamed/part_001 and src/src/types/index.ts lines 47-101
\* ================================================================
VARIABLES
    stage,          \* how far the page has come: "new", "rendered", "mounted"
    initialSettings,\* the argument of the first call of useMediaPlayer
    saved,          \* what sessionStorage holds under 'playerSettings'
    pageSettings,   \* the settings state of Player, types/index.ts line 52
    pageError,      \* Player shows its error view (errorMessage, line 54)
    hookSettings,   \* the settings state of the hook, part_001 line 8
    currentMedia, nextMedia, loadingMedia, errorMessage,  \* lines 9-12
    fetchAttempts,  \* fetchAttemptsRef.current, line 15
    mediaTimer,     \* the pending rotation timer and the nextMedia its
                    \* rotateMedia closure has captured
    retryTimers,    \* pending 1 s timers of line 193
    initial,        \* where loadInitialMedia is, and its firstItem
    fetching,       \* fetchNextMediaItem calls waiting for getNextItem
    rotating,       \* rotateMedia calls waiting for getNextItem
    loading,        \* loadMedia calls of retryLoading waiting for getNextItem
    preloads,       \* preloadMedia promises of line 118 not yet settled
    issued,         \* getNextItem calls made so far
    received,            \* items getNextItem has returned so far
    unhandled,      \* a promise was rejected with no handler attached
    hev             \* what the last step was

playerVars ==
    <<stage, initialSettings, saved, pageSettings, pageError, hookSettings, currentMedia,
      nextMedia, loadingMedia, errorMessage, fetchAttempts, mediaTimer,
      retryTimers, initial, fetching, rotating, loading, preloads, issued,
      received, unhandled, hev>>

\* null, for a settings object and for a media item.
NoSettings == "null"
NoMedia == 0

NoTimer == [set |-> FALSE, next |-> NoMedia]

InitHookVars ==
    /\ hookSettings = NoSettings
    /\ currentMedia = NoMedia
    /\ nextMedia = NoMedia
    /\ loadingMedia = FALSE
    /\ errorMessage = "null"
    /\ fetchAttempts = 0
    /\ mediaTimer = NoTimer
    /\ retryTimers = 0
    /\ initial = [pc |-> "none", firstItem |-> NoMedia]
    /\ fetching = 0
    /\ rotating = 0
    /\ loading = 0
    /\ preloads = 0
    /\ issued = 0
    /\ received = 0
    /\ unhandled = FALSE
    /\ hev = "none"

\* The page is not part of the run.
InitPlayerVars ==
    /\ stage = "new"
    /\ initialSettings = NoSettings
    /\ saved = "missing"
    /\ pageSettings = NoSettings
    /\ pageError = FALSE
    /\ InitHookVars

\* ================================================================
\* RedgifsServiceClass, src/src/utils/redgifsService.ts: state
\* ================================================================

\* Overlapping calls of getNextItem that may be pending at once.
MaxCalls == 2
\* Largest list a search or trending request answers with (the code asks
\* for 30).
MaxFound == 3

VARIABLES
    cache,           \* RedgifsServiceClass.cache, by cache key
    currentItems,    \* RedgifsServiceClass.currentItems
    currentIndex,    \* RedgifsServiceClass.currentIndex
    temporaryToken,  \* "none" (null), "token" or "anonymous"
    tokenValid,      \* Date.now() < tokenExpiry
    call,            \* the pending calls of getNextItem (a bag)
    served,          \* the items served since currentItems was last assigned
    rret,            \* what a call has just resolved to
    cleared,         \* the client's clearCache() returned and nothing ran since
    tokenUse         \* what the getTemporaryToken call just made did: "reused"
                     \* the stored token, "requested" one; "none" otherwise

redgifsVars ==
    <<cache, currentItems, currentIndex, temporaryToken, tokenValid, call,
      served, rret, cleared, tokenUse>>

vars == <<sut, scrollerVars, redgifsVars, pureVars, playerVars>>

\* The settings the player calls with.  Tags are single characters, written
\* as digits: Array.prototype.sort() orders them as the numbers are ordered.
Settings ==
    { [tags |-> <<>>, allowNsfw |-> FALSE],
      [tags |-> <<1>>, allowNsfw |-> TRUE],
      [tags |-> <<1, 2>>, allowNsfw |-> FALSE],
      [tags |-> <<2, 1>>, allowNsfw |-> FALSE] }

RECURSIVE Insert(_, _)
Insert(x, s) ==
    IF s = <<>> THEN <<x>>
    ELSE IF x <= Head(s) THEN <<x>> \o s
    ELSE <<Head(s)>> \o Insert(x, Tail(s))

\* A sort() that would leave the array as it is.
Unsorted(s) == s

RECURSIVE Sort(_)
Sort(s) == IF s = <<>> THEN <<>> ELSE Insert(Head(s), Sort(Tail(s)))

\* createCacheKey(tags, includeNsfw): the sorted tags joined by "+", then
\* ":nsfw" or ":sfw".
createCacheKey(tags, includeNsfw) ==
    [tags |-> Sort(tags), rating |-> IF includeNsfw THEN "nsfw" ELSE "sfw"]

Keys == {createCacheKey(s.tags, s.allowNsfw) : s \in {t \in Settings : t.tags # <<>>}}
NoKey == [tags |-> <<>>, rating |-> "none"]

EmptyCache == [k \in Keys |-> <<>>]

\* The record of a resolved getNextItem call, kept for the one state that
\* follows: the item, whether the call found the cursor at the end of a
\* served batch, the search and trending requests it issued and whether it
\* awaited fetchMedia or fetchTrendingMedia.
Resolved(val, exhausted, fetches, awaited) ==
    [val |-> val, exhausted |-> exhausted, fetches |-> fetches,
     awaited |-> awaited]
NoResolved == Resolved(Item("none", FALSE, 0), FALSE, 0, FALSE)

\* The pending calls, and the bag of them after the call old has moved on
\* to new or has resolved.  A call that has just been made is not in the bag.
Pending == BagToSet(call)
Moved(old, new) == (call (-) SetToBag({old})) (+) SetToBag({new})
Gone(old) == call (-) SetToBag({old})

InitRedgifsVars ==
    /\ cache = EmptyCache
    /\ currentItems = <<>>
    /\ currentIndex = 0
    /\ temporaryToken = "none"
    /\ tokenValid = FALSE
    /\ call = EmptyBag
    /\ served = <<>>
    /\ rret = NoResolved
    /\ cleared = FALSE
    /\ tokenUse = "none"

\* ================================================================
\* ScrollerService: what both variants share
\* ================================================================

\* The promise of a refill call settles; nobody awaits it.
RefillSettled(f) ==
    /\ f \in RefillFrames
    /\ frame[f].pc = "done"
    /\ frame' = [frame EXCEPT ![f] = IdleFrame]
    /\ obs' = ObsEnd(f)
    /\ ret' = NoReturn
    /\ ans' = NoAnswer
    /\ UNCHANGED <<sut, redgifsVars, pureVars, playerVars, cachedItems, isFetching, retryCount, timers, gpc>>

\* ================================================================
\* ScrollerService, src/src/utils/scrollerService.ts lines 1-343
\* ================================================================

\* fetchFromRedditAPI, lines 256-306: the request and the extraction of
\* the posts run inside try/catch, which answers [] for whatever is thrown.
fetchFromRedditAPI(outcome, stale, n) ==
    IF outcome = "ok" THEN [kind |-> "value", val |-> Batch("secondary", stale, n)]
    ELSE [kind |-> "value", val |-> <<>>]

\* What the try block of fetchMedia does with the primary answer,
\* lines 110-205: return the items, return mock data, or throw.
S_PrimaryTry(outcome) ==
    CASE outcome = "ok" -> "items"
      [] outcome \in {"zero", "procerr"} -> "mock"
      [] OTHER -> "throw"

\* A catch clause that would let the rejection of response.json() pass.
S_CaughtBut(outcome) == outcome # "badjson"

\* The errors the catch clause of fetchMedia takes, line 206:
\* "catch (error)", every one.
S_Caught(outcome) == TRUE

\* A finally block that would leave the flag as it is.
S_FinallySkipped == isFetching

\* What the finally block of fetchMedia leaves in isFetching, lines 250-252.
S_Finally == FALSE

\* A test that would turn a secondary answer of one item down.
S_AcceptedMany(got) == got.kind = "value" /\ Len(got.val) > 1

\* The test on the secondary answer, line 213: a list with items.
S_Accepted(got) == got.kind = "value" /\ Len(got.val) > 0

\* What fetchMedia returns when isFetching is set, lines 104-106.
S_GuardResult(stale) ==
    cachedItems

\* The refill condition of getNextItem, line 335.
S_Low(rest) == Len(rest) < LOW_WATER

\* The tail of getNextItem, lines 331-341: shift, refill timer, return.
\* fetched is the length of the list the awaited fetchMedia resolved to, or
\* -1 when the cache was not empty and nothing was awaited.
S_ServeTail(stale, fetched) ==
    LET item == IF cachedItems = <<>> THEN NullItem ELSE Head(cachedItems)
        rest == IF cachedItems = <<>> THEN <<>> ELSE Tail(cachedItems)
        low == S_Low(rest)
    IN /\ cachedItems' = rest
       /\ timers' = IF ~low THEN timers
                    ELSE IF stale THEN [timers EXCEPT !.stale = @ + 1]
                    ELSE [timers EXCEPT !.fresh = @ + 1]
       /\ ret' = Return(item, stale, fetched, Len(rest), low)

\* getNextItem called by the driver, lines 321-342, up to its first await.
S_GetNextItem ==
    /\ sut = "scroller"
    /\ Quiescent
    /\ gpc = "idle"
    /\ TimerCount < MaxTimers
    /\ IF cachedItems = <<>>
       THEN IF isFetching
            THEN \* fetchMedia returns at once
                 /\ IF Len(S_GuardResult(FALSE)) = 0
                    THEN /\ ret' = Return(NullItem, FALSE, 0, 0, FALSE)
                         /\ UNCHANGED <<cachedItems, timers>>
                    ELSE S_ServeTail(FALSE, Len(S_GuardResult(FALSE)))
                 /\ UNCHANGED <<isFetching, frame, gpc, obs>>
            ELSE /\ isFetching' = TRUE
                 /\ frame' = StartFrame(0, FALSE)
                 /\ \E track \in MayTrack : obs' = ObsStart(0, track)
                 /\ gpc' = "await"
                 /\ ret' = NoReturn
                 /\ UNCHANGED <<cachedItems, timers>>
       ELSE /\ S_ServeTail(FALSE, -1)
            /\ UNCHANGED <<isFetching, frame, gpc, obs>>
    /\ ans' = NoAnswer
    /\ UNCHANGED <<sut, redgifsVars, pureVars, playerVars, retryCount>>

\* getNextItem resumes after await fetchMedia, lines 324-341.  The await
\* is not inside a try block: a rejection of fetchMedia rejects getNextItem.
S_GetNextItemResume ==
    /\ sut = "scroller"
    /\ gpc = "await"
    /\ frame[0].pc = "done"
    /\ LET items == frame[0].result
           stale == frame[0].stale
       IN IF frame[0].outcome = "rejected"
          THEN /\ ret' = Return(RejectedItem, stale, -1, Len(cachedItems), FALSE)
               /\ UNCHANGED <<cachedItems, timers>>
          ELSE IF Len(items) = 0
          THEN /\ ret' = Return(NullItem, stale, 0, Len(cachedItems), FALSE)
               /\ UNCHANGED <<cachedItems, timers>>
          ELSE S_ServeTail(stale, Len(items))
    /\ frame' = [frame EXCEPT ![0] = IdleFrame]
    /\ obs' = ObsEnd(0)
    /\ gpc' = "idle"
    /\ ans' = NoAnswer
    /\ UNCHANGED <<sut, redgifsVars, pureVars, playerVars, isFetching, retryCount>>

\* The retry logic of the catch block, lines 224-249.  o is the observed
\* history so far.
S_RetryOrGiveUp(f, fr, o) ==
    IF retryCount < MAX_RETRIES
    THEN /\ retryCount' = retryCount + 1
         /\ isFetching' = FALSE
         /\ frame' = [frame EXCEPT ![f] = [fr EXCEPT !.pc = "backoff", !.zero = FALSE]]
         /\ obs' = ObsRetry(o, f)
         /\ UNCHANGED cachedItems
    ELSE /\ retryCount' = 0
         /\ isFetching' = FALSE
         /\ frame' = [frame EXCEPT ![f] = Settle(fr, "terminal", generateMockData(fr.stale))]
         /\ obs' = o
         /\ UNCHANGED cachedItems

\* The catch block of fetchMedia up to the secondary request, lines 206-222:
\* the secondary request is made only while retryCount is 0.
S_CatchBlock(f, fr, o) ==
    IF retryCount = 0
    THEN /\ frame' = [frame EXCEPT ![f] = [fr EXCEPT !.pc = "secondary"]]
         /\ obs' = o
         /\ UNCHANGED <<cachedItems, retryCount, isFetching>>
    ELSE S_RetryOrGiveUp(f, fr, o)

\* The primary request settles, lines 120-212.
S_PrimaryResponse(f, outcome, n) ==
    /\ sut = "scroller"
    /\ Quiescent
    /\ frame[f].pc = "primary"
    /\ LET fr == frame[f]
           o == ObsAnswer(f, outcome \in TransportFailures)
           try == S_PrimaryTry(outcome)
       IN CASE try = "items" ->
                 /\ retryCount' = 0
                 /\ cachedItems' = Batch("primary", fr.stale, n)
                 /\ isFetching' = S_Finally
                 /\ frame' = [frame EXCEPT ![f] =
                        Settle(fr, "primary", Batch("primary", fr.stale, n))]
                 /\ obs' = o
            [] try = "mock" ->
                 /\ isFetching' = S_Finally
                 /\ frame' = [frame EXCEPT ![f] =
                        Settle(fr, "empty", generateMockData(fr.stale))]
                 /\ obs' = o
                 /\ UNCHANGED <<cachedItems, retryCount>>
            [] OTHER ->
                 IF S_Caught(outcome)
                 THEN S_CatchBlock(f, [fr EXCEPT !.zero = (outcome = "zero")], o)
                 ELSE \* the error leaves fetchMedia through the finally block
                      /\ isFetching' = S_Finally
                      /\ frame' = [frame EXCEPT ![f] = Settle(fr, "rejected", <<>>)]
                      /\ obs' = o
                      /\ UNCHANGED <<cachedItems, retryCount>>
    /\ ret' = NoReturn
    /\ ans' = NoAnswer
    /\ UNCHANGED <<sut, redgifsVars, pureVars, playerVars, timers, gpc>>

\* The secondary request settles, lines 211-249.  The await stands in
\* a try block of its own, which swallows what fetchFromRedditAPI throws.
S_SecondaryResponse(f, outcome, n) ==
    /\ sut = "scroller"
    /\ Quiescent
    /\ frame[f].pc = "secondary"
    /\ LET fr == frame[f]
           o == ObsAnswer(f, outcome \in TransportFailures)
           got == fetchFromRedditAPI(outcome, fr.stale, n)
       IN IF S_Accepted(got)
          THEN /\ cachedItems' = got.val
               /\ isFetching' = FALSE
               /\ frame' = [frame EXCEPT ![f] = Settle(fr, "secondary", got.val)]
               /\ obs' = o
               /\ UNCHANGED retryCount
          ELSE S_RetryOrGiveUp(f, fr, o)
    /\ ret' = NoReturn
    /\ ans' = Answer(f, outcome, n)
    /\ UNCHANGED <<sut, redgifsVars, pureVars, playerVars, timers, gpc>>

\* The 1 s backoff timer fires, lines 236-237 and the finally of line 251:
\* "return this.fetchMedia(...)" runs the head of the nested call (guard,
\* isFetching = true, request issued) and then the finally block of the
\* outer call, which clears isFetching while that request is in flight.
S_BackoffWake(f) ==
    /\ sut = "scroller"
    /\ Quiescent
    /\ frame[f].pc = "backoff"
    /\ IF isFetching
       THEN frame' = [frame EXCEPT ![f] =
                Settle(frame[f], "guard", S_GuardResult(frame[f].stale))]
       ELSE frame' = [frame EXCEPT ![f].pc = "primary"]
    /\ isFetching' = S_Finally
    /\ ret' = NoReturn
    /\ ans' = NoAnswer
    /\ UNCHANGED <<sut, redgifsVars, pureVars, playerVars, cachedItems, retryCount, timers, gpc, obs>>

\* A refill timer fires, lines 336-338: fetchMedia is called and its
\* promise dropped.
S_RefillTimer(stale) ==
    /\ sut = "scroller"
    /\ Quiescent
    /\ IF stale THEN timers.stale > 0 ELSE timers.fresh > 0
    /\ timers' = IF stale THEN [timers EXCEPT !.stale = @ - 1]
                 ELSE [timers EXCEPT !.fresh = @ - 1]
    /\ IF isFetching
       THEN UNCHANGED <<isFetching, frame, obs>>
       ELSE \E f \in RefillFrames :
               /\ FreeRefill(f)
               /\ isFetching' = TRUE
               /\ frame' = StartFrame(f, stale)
               /\ \E track \in MayTrack : obs' = ObsStart(f, track)
    /\ ret' = NoReturn
    /\ ans' = NoAnswer
    /\ UNCHANGED <<sut, redgifsVars, pureVars, playerVars, cachedItems, retryCount, gpc>>

InitScroller == sut = "scroller" /\ InitScrollerVars /\ InitRedgifsVars /\ InitPlayerVars /\ InitPureVars

NextScroller ==
    \/ S_GetNextItem
    \/ S_GetNextItemResume
    \/ \E f \in Frames, o \in Outcomes : \E n \in SizesOf(o) : S_PrimaryResponse(f, o, n)
    \/ \E f \in Frames, o \in Outcomes : \E n \in SizesOf(o) : S_SecondaryResponse(f, o, n)
    \/ \E f \in Frames : S_BackoffWake(f)
    \/ \E stale \in BOOLEAN : S_RefillTimer(stale)
    \/ \E f \in RefillFrames : sut = "scroller" /\ RefillSettled(f)

SpecScroller == InitScroller /\ [][NextScroller]_vars

\* ================================================================
\* ScrollerService, src/src/pages/Index.tsx lines 542-888
\* ================================================================

\* fetchFromReddit, lines 766-839: the request and the extraction of
\* the posts run inside try/catch, which answers [] for whatever is thrown.
fetchFromReddit(outcome, stale, n) ==
    IF outcome = "ok" THEN [kind |-> "value", val |-> Batch("secondary", stale, n)]
    ELSE [kind |-> "value", val |-> <<>>]

\* What the try block of fetchMedia does with the primary answer,
\* lines 596-716:
\* an empty item list is thrown as an error too: return the items, return mock data, or throw.
I_PrimaryTry(outcome) ==
    IF outcome = "ok" THEN "items" ELSE "throw"

\* The errors the catch clause of fetchMedia takes, line 718:
\* "catch (error)", every one.
I_Caught(outcome) == TRUE

\* What the finally block of fetchMedia leaves in isFetching, lines 760-762.
I_Finally == FALSE

\* The test on the secondary answer, line 724: a list with items.
I_Accepted(got) == got.kind = "value" /\ Len(got.val) > 0

\* What fetchMedia returns when isFetching is set, lines 590-592.
I_GuardResult(stale) ==
    IF Len(cachedItems) > 0 THEN cachedItems ELSE generateFallbackItems(stale)

\* A refill condition with the mark one item lower.
I_LowBelow(rest) == Len(rest) < LOW_WATER - 1 /\ ~isFetching

\* The refill condition of getNextItem, line 875.
I_Low(rest) == Len(rest) < LOW_WATER /\ ~isFetching

\* The tail of getNextItem, lines 872-881: shift, refill timer, return.
\* fetched is the length of the list the awaited fetchMedia resolved to, or
\* -1 when the cache was not empty and nothing was awaited.
I_ServeTail(stale, fetched) ==
    LET item == IF cachedItems = <<>> THEN NullItem ELSE Head(cachedItems)
        rest == IF cachedItems = <<>> THEN <<>> ELSE Tail(cachedItems)
        low == I_Low(rest)
    IN /\ cachedItems' = rest
       /\ timers' = IF ~low THEN timers
                    ELSE IF stale THEN [timers EXCEPT !.stale = @ + 1]
                    ELSE [timers EXCEPT !.fresh = @ + 1]
       /\ ret' = Return(item, stale, fetched, Len(rest), low)

\* getNextItem called by the driver, lines 852-882, up to its first await.
I_GetNextItem ==
    /\ sut = "index"
    /\ Quiescent
    /\ gpc = "idle"
    /\ TimerCount < MaxTimers
    /\ IF cachedItems = <<>>
       THEN IF isFetching
            THEN \* fetchMedia returns at once
                 /\ IF Len(I_GuardResult(FALSE)) = 0
                    THEN /\ ret' = Return(NullItem, FALSE, 0, 0, FALSE)
                         /\ UNCHANGED <<cachedItems, timers>>
                    ELSE I_ServeTail(FALSE, Len(I_GuardResult(FALSE)))
                 /\ UNCHANGED <<isFetching, frame, gpc, obs>>
            ELSE /\ isFetching' = TRUE
                 /\ frame' = StartFrame(0, FALSE)
                 /\ \E track \in {FALSE} : obs' = ObsStart(0, track)
                 /\ gpc' = "await"
                 /\ ret' = NoReturn
                 /\ UNCHANGED <<cachedItems, timers>>
       ELSE /\ I_ServeTail(FALSE, -1)
            /\ UNCHANGED <<isFetching, frame, gpc, obs>>
    /\ ans' = NoAnswer
    /\ UNCHANGED <<sut, redgifsVars, pureVars, playerVars, retryCount>>

\* getNextItem resumes after await fetchMedia, lines 860-881.  The await
\* is not inside a try block: a rejection of fetchMedia rejects getNextItem.
I_GetNextItemResume ==
    /\ sut = "index"
    /\ gpc = "await"
    /\ frame[0].pc = "done"
    /\ LET items == frame[0].result
           stale == frame[0].stale
       IN IF frame[0].outcome = "rejected"
          THEN /\ ret' = Return(RejectedItem, stale, -1, Len(cachedItems), FALSE)
               /\ UNCHANGED <<cachedItems, timers>>
          ELSE IF Len(items) = 0
          THEN /\ ret' = Return(NullItem, stale, 0, Len(cachedItems), FALSE)
               /\ UNCHANGED <<cachedItems, timers>>
          ELSE I_ServeTail(stale, Len(items))
    /\ frame' = [frame EXCEPT ![0] = IdleFrame]
    /\ obs' = ObsEnd(0)
    /\ gpc' = "idle"
    /\ ans' = NoAnswer
    /\ UNCHANGED <<sut, redgifsVars, pureVars, playerVars, isFetching, retryCount>>

\* The retry logic of the catch block, lines 733-759.  o is the observed
\* history so far.
I_RetryOrGiveUp(f, fr, o) ==
    IF retryCount < MAX_RETRIES
    THEN /\ retryCount' = retryCount + 1
         /\ isFetching' = FALSE
         /\ frame' = [frame EXCEPT ![f] = [fr EXCEPT !.pc = "backoff", !.zero = FALSE]]
         /\ obs' = ObsRetry(o, f)
         /\ UNCHANGED cachedItems
    ELSE /\ retryCount' = 0
         /\ isFetching' = FALSE
         /\ frame' = [frame EXCEPT ![f] = Settle(fr, "terminal", generateFallbackItems(fr.stale))]
         /\ obs' = o
         /\ UNCHANGED cachedItems

\* The catch block of fetchMedia up to the secondary request, lines 718-723:
\* the secondary request is made on every failure.
I_CatchBlock(f, fr, o) ==
    /\ frame' = [frame EXCEPT ![f] = [fr EXCEPT !.pc = "secondary"]]
    /\ obs' = o
    /\ UNCHANGED <<cachedItems, retryCount, isFetching>>

\* The primary request settles, lines 645-723.
I_PrimaryResponse(f, outcome, n) ==
    /\ sut = "index"
    /\ Quiescent
    /\ frame[f].pc = "primary"
    /\ LET fr == frame[f]
           o == ObsAnswer(f, outcome \in TransportFailures)
           try == I_PrimaryTry(outcome)
       IN CASE try = "items" ->
                 /\ retryCount' = 0
                 /\ cachedItems' = Batch("primary", fr.stale, n)
                 /\ isFetching' = I_Finally
                 /\ frame' = [frame EXCEPT ![f] =
                        Settle(fr, "primary", Batch("primary", fr.stale, n))]
                 /\ obs' = o
            [] try = "mock" ->
                 /\ isFetching' = I_Finally
                 /\ frame' = [frame EXCEPT ![f] =
                        Settle(fr, "empty", generateMockData(fr.stale))]
                 /\ obs' = o
                 /\ UNCHANGED <<cachedItems, retryCount>>
            [] OTHER ->
                 IF I_Caught(outcome)
                 THEN I_CatchBlock(f, [fr EXCEPT !.zero = (outcome = "zero")], o)
                 ELSE \* the error leaves fetchMedia through the finally block
                      /\ isFetching' = I_Finally
                      /\ frame' = [frame EXCEPT ![f] = Settle(fr, "rejected", <<>>)]
                      /\ obs' = o
                      /\ UNCHANGED <<cachedItems, retryCount>>
    /\ ret' = NoReturn
    /\ ans' = NoAnswer
    /\ UNCHANGED <<sut, redgifsVars, pureVars, playerVars, timers, gpc>>

\* The secondary request settles, lines 722-759.  The await stands in
\* a try block of its own, which swallows what fetchFromReddit throws.
I_SecondaryResponse(f, outcome, n) ==
    /\ sut = "index"
    /\ Quiescent
    /\ frame[f].pc = "secondary"
    /\ LET fr == frame[f]
           o == ObsAnswer(f, outcome \in TransportFailures)
           got == fetchFromReddit(outcome, fr.stale, n)
       IN IF I_Accepted(got)
          THEN /\ cachedItems' = got.val
               /\ isFetching' = FALSE
               /\ frame' = [frame EXCEPT ![f] = Settle(fr, "secondary", got.val)]
               /\ obs' = o
               /\ UNCHANGED retryCount
          ELSE I_RetryOrGiveUp(f, fr, o)
    /\ ret' = NoReturn
    /\ ans' = Answer(f, outcome, n)
    /\ UNCHANGED <<sut, redgifsVars, pureVars, playerVars, timers, gpc>>

\* The 1 s backoff timer fires, lines 745-746 and the finally of line 761:
\* "return this.fetchMedia(...)" runs the head of the nested call (guard,
\* isFetching = true, request issued) and then the finally block of the
\* outer call, which clears isFetching while that request is in flight.
I_BackoffWake(f) ==
    /\ sut = "index"
    /\ Quiescent
    /\ frame[f].pc = "backoff"
    /\ IF isFetching
       THEN frame' = [frame EXCEPT ![f] =
                Settle(frame[f], "guard", I_GuardResult(frame[f].stale))]
       ELSE frame' = [frame EXCEPT ![f].pc = "primary"]
    /\ isFetching' = I_Finally
    /\ ret' = NoReturn
    /\ ans' = NoAnswer
    /\ UNCHANGED <<sut, redgifsVars, pureVars, playerVars, cachedItems, retryCount, timers, gpc, obs>>

\* A refill timer fires, lines 876-878: fetchMedia is called and its
\* promise dropped.
I_RefillTimer(stale) ==
    /\ sut = "index"
    /\ Quiescent
    /\ IF stale THEN timers.stale > 0 ELSE timers.fresh > 0
    /\ timers' = IF stale THEN [timers EXCEPT !.stale = @ - 1]
                 ELSE [timers EXCEPT !.fresh = @ - 1]
    /\ IF isFetching
       THEN UNCHANGED <<isFetching, frame, obs>>
       ELSE \E f \in RefillFrames :
               /\ FreeRefill(f)
               /\ isFetching' = TRUE
               /\ frame' = StartFrame(f, stale)
               /\ \E track \in {FALSE} : obs' = ObsStart(f, track)
    /\ ret' = NoReturn
    /\ ans' = NoAnswer
    /\ UNCHANGED <<sut, redgifsVars, pureVars, playerVars, cachedItems, retryCount, gpc>>

\* clearCache(), lines 885-887, called by the page when the settings change
\* or the user retries.  Whatever was started before (the calls in flight,
\* the refill timers, the waiting getNextItem) carries the old settings.
I_ClearCache ==
    /\ sut = "index"
    /\ Quiescent
    /\ cachedItems' = <<>>
    /\ frame' = [f \in Frames |->
                    IF Active(frame[f]) THEN [frame[f] EXCEPT !.stale = TRUE]
                    ELSE frame[f]]
    /\ timers' = [fresh |-> 0, stale |-> TimerCount]
    /\ ret' = NoReturn
    /\ ans' = NoAnswer
    /\ UNCHANGED <<sut, redgifsVars, pureVars, playerVars, isFetching, retryCount, gpc, obs>>

InitIndex == sut = "index" /\ InitScrollerVars /\ InitRedgifsVars /\ InitPlayerVars /\ InitPureVars

NextIndex ==
    \/ I_GetNextItem
    \/ I_GetNextItemResume
    \/ \E f \in Frames, o \in Outcomes : \E n \in SizesOf(o) : I_PrimaryResponse(f, o, n)
    \/ \E f \in Frames, o \in Outcomes : \E n \in SizesOf(o) : I_SecondaryResponse(f, o, n)
    \/ \E f \in Frames : I_BackoffWake(f)
    \/ \E stale \in BOOLEAN : I_RefillTimer(stale)
    \/ \E f \in RefillFrames : sut = "index" /\ RefillSettled(f)
    \/ I_ClearCache

SpecIndex == InitIndex /\ [][NextIndex]_vars

\* ================================================================
\* RedgifsServiceClass, src/src/utils/redgifsService.ts: behaviour
\* ================================================================

\* Outcomes of a search or trending request.
\*   neterr    fetch() rejects
\*   http      !response.ok, throw
\*   badjson   response.json() rejects
\*   badshape  the body has neither a gifs nor an items array
\*   zero      no item of the answer has a usable url
\*   ok        n > 0 items are mapped
R_Outcomes == {"neterr", "http", "badjson", "badshape", "zero", "ok"}

\* A test that would take a cursor at the end of the list for a valid one.
R_OutOfRange(items, index) == index > Len(items)

\* The test of getNextItem, line 271: no items, or the cursor at the end.
R_Exhausted(items, index) == Len(items) = 0 \/ index >= Len(items)

\* A test that would take a stored token for usable whatever its expiry.
R_TokenStored(token, valid) == token # "none"

\* The test of getTemporaryToken, line 41: a token is stored and
\* now < tokenExpiry.
R_TokenUsable(token, valid) == token # "none" /\ valid

\* A read that would skip an item.
R_SkipOne(index) == index + 2

\* The index getNextItem reads, lines 286-287 (JavaScript counts from 0,
\* sequences from 1).
R_Slot(index) == index + 1

\* A catch clause that would let a rejected fetch() through.
R_TrendingCaughtBut(outcome) == outcome # "neterr"

\* The errors the catch clause of fetchTrendingMedia takes, line 252:
\* "catch (error)", every one.
R_TrendingCaught(outcome) == TRUE

\* What fetchTrendingMedia resolves to, lines 200-256.
fetchTrendingMedia(outcome, n) ==
    CASE outcome = "ok" -> [kind |-> "value", val |-> Batch("trending", FALSE, n)]
      [] outcome \in {"zero", "badshape"} -> [kind |-> "value", val |-> <<>>]
      [] OTHER -> IF R_TrendingCaught(outcome)
                  THEN [kind |-> "value", val |-> <<>>]
                  ELSE [kind |-> "throw", val |-> <<>>]

\* The rejection of a call: nothing in getNextItem or in the tail of
\* fetchMedia catches.
R_Reject(cl) ==
    /\ call' = Gone(cl)
    /\ rret' = Resolved(RejectedItem, cl.exhausted, cl.fetches, TRUE)

\* Lines 285-290 of getNextItem: read the item at the cursor, advance the
\* cursor, log item.id (a TypeError when the item is undefined), return.
\* items and index are currentItems and currentIndex as they are when line
\* 286 is reached, log the items served from that list so far.
R_Serve(cl, items, index, log, awaited) ==
    LET slot == R_Slot(index)
        defined == slot \in DOMAIN items
    IN /\ currentItems' = items
       /\ currentIndex' = index + 1
       /\ served' = IF defined THEN Append(log, items[slot]) ELSE log
       /\ call' = Gone(cl)
       /\ rret' = Resolved(IF defined THEN items[slot] ELSE RejectedItem,
                           cl.exhausted, cl.fetches, awaited)

\* fetchMedia resolves to list; items, index and log are currentItems,
\* currentIndex and served as fetchMedia leaves them.  getNextItem goes on
\* at line 275.
R_FetchMediaReturn(cl, list, items, index, log) ==
    IF Len(list) = 0
    THEN \* lines 275-277: the trending request is issued
         /\ currentItems' = items
         /\ currentIndex' = index
         /\ served' = log
         /\ call' = Moved(cl, [cl EXCEPT !.pc = "trendingG", !.fetches = @ + 1])
         /\ rret' = NoResolved
    ELSE \* lines 281-290
         R_Serve(cl, list, 0, <<>>, TRUE)

\* A test that would take every key for cached, whatever is stored under it.
R_CachedAlways(entry) == TRUE

\* The cache test of fetchMedia, line 101: an entry is stored under the key
\* and it is not empty.  A key with no entry has the empty sequence.
R_Cached(entry) == Len(entry) > 0

\* A store that would add the new items to the entry it finds.
cacheItemsMerged(key, items) == [cache EXCEPT ![key] = @ \o items]

\* The result cache after this.cache[cacheKey] = mediaItems, line 182.
cacheItems(key, items) == [cache EXCEPT ![key] = items]

\* A clearCache() that would leave the cursor where it is.
clearCacheKeepsCursor ==
    /\ cache' = EmptyCache
    /\ currentItems' = <<>>
    /\ served' = <<>>
    /\ UNCHANGED currentIndex

\* clearCache(), lines 27-32.
clearCache ==
    /\ cache' = EmptyCache
    /\ currentItems' = <<>>
    /\ currentIndex' = 0
    /\ served' = <<>>

\* clearCache() called by the client.
R_ClearCache ==
    /\ sut = "redgifs"
    /\ clearCache
    /\ rret' = NoResolved
    /\ cleared' = TRUE
    /\ tokenUse' = "none"
    /\ UNCHANGED <<sut, scrollerVars, pureVars, playerVars, temporaryToken, tokenValid, call>>

\* fetchMedia called by getNextItem (nothing else in the repository calls
\* it), lines 97-145, up to its first request.
R_FetchMediaHead(cl) ==
    IF R_Cached(cache[cl.key])
    THEN \* lines 101-104
         /\ R_FetchMediaReturn(cl, cache[cl.key], currentItems, currentIndex, served)
         /\ tokenUse' = "none"
         /\ UNCHANGED cache
    ELSE \* lines 108-109: clearCache(), then getTemporaryToken()
         /\ clearCache
         /\ rret' = NoResolved
         /\ IF R_TokenUsable(temporaryToken, tokenValid)
            THEN \* lines 42-43, then the search request, lines 112-145
                 /\ call' = Moved(cl, [cl EXCEPT !.pc = "search", !.fetches = @ + 1])
                 /\ tokenUse' = "reused"
            ELSE \* line 49: the token request
                 /\ call' = Moved(cl, [cl EXCEPT !.pc = "token"])
                 /\ tokenUse' = "requested"

\* getNextItem called by the player, lines 261-291, up to its first request.
\* The pending call records where it is suspended, the cache key it
\* computed, whether it found the cursor at the end of a served batch, and
\* the search and trending requests it has issued so far.
R_GetNextItem(tags, allowNsfw) ==
    /\ sut = "redgifs"
    /\ cleared' = FALSE
    /\ BagCardinality(call) < MaxCalls
    /\ LET cl == [pc |-> "idle",
                  key |-> IF tags = <<>> THEN NoKey
                          ELSE createCacheKey(tags, allowNsfw),
                  exhausted |-> Len(currentItems) > 0
                                /\ currentIndex = Len(currentItems),
                  fetches |-> 0]
       IN IF tags = <<>>
          THEN \* lines 264-266
               /\ call' = Moved(cl, [cl EXCEPT !.pc = "trending0", !.fetches = 1])
               /\ rret' = NoResolved
               /\ tokenUse' = "none"
               /\ UNCHANGED <<cache, currentItems, currentIndex, served>>
          ELSE IF R_Exhausted(currentItems, currentIndex)
          THEN R_FetchMediaHead(cl)
          ELSE /\ R_Serve(cl, currentItems, currentIndex, served, FALSE)
               /\ tokenUse' = "none"
               /\ UNCHANGED cache
    /\ UNCHANGED <<sut, scrollerVars, pureVars, playerVars, temporaryToken, tokenValid>>

\* A catch clause that would let a rejected fetch() through.
R_TokenCaughtBut(outcome) == outcome # "neterr"

\* The errors the catch clause of getTemporaryToken takes, line 77:
\* "catch (error)", every one.
R_TokenCaught(outcome) == TRUE

\* The token request settles, lines 49-85; fetchMedia issues the search
\* request, lines 112-145.  A failure falls back to anonymous access, with
\* an expiry one hour after the call (line 82).  A rejection of
\* getTemporaryToken would be taken by the catch clause of fetchMedia, line
\* 191, which returns fetchTrendingMedia().  Outcomes of the request:
\*   neterr    fetch() rejects
\*   http      !response.ok, throw (lines 59-62)
\*   badjson   response.json() rejects
\*   notoken   the body has no access_token, throw (lines 67-70)
\*   ok        the body has an access_token
R_TokenResponse(cl, outcome) ==
    /\ sut = "redgifs"
    /\ cleared' = FALSE
    /\ tokenUse' = "none"
    /\ cl \in Pending
    /\ cl.pc = "token"
    /\ IF outcome = "ok" \/ R_TokenCaught(outcome)
       THEN /\ temporaryToken' = IF outcome = "ok" THEN "token" ELSE "anonymous"
            /\ tokenValid' = TRUE
            /\ call' = Moved(cl, [cl EXCEPT !.pc = "search", !.fetches = @ + 1])
       ELSE /\ call' = Moved(cl, [cl EXCEPT !.pc = "trendingF", !.fetches = @ + 1])
            /\ UNCHANGED <<temporaryToken, tokenValid>>
    /\ rret' = NoResolved
    /\ UNCHANGED <<sut, scrollerVars, pureVars, playerVars, cache, currentItems, currentIndex, served>>

\* The search request settles, lines 145-194.
R_SearchResponse(cl, outcome, n) ==
    /\ sut = "redgifs"
    /\ cleared' = FALSE
    /\ tokenUse' = "none"
    /\ cl \in Pending
    /\ cl.pc = "search"
    /\ IF outcome = "ok"
       THEN \* lines 181-190
            LET mediaItems == Batch("search", FALSE, n)
            IN /\ cache' = cacheItems(cl.key, mediaItems)
               /\ R_FetchMediaReturn(cl, mediaItems, mediaItems, 0, <<>>)
       ELSE \* lines 187 and 193: return this.fetchTrendingMedia()
            /\ call' = Moved(cl, [cl EXCEPT !.pc = "trendingF", !.fetches = @ + 1])
            /\ rret' = NoResolved
            /\ UNCHANGED <<cache, currentItems, currentIndex, served>>
    /\ UNCHANGED <<sut, scrollerVars, pureVars, playerVars, temporaryToken, tokenValid>>

\* A trending request settles, lines 214-255, and its caller goes on.
R_TrendingResponse(cl, outcome, n) ==
    /\ sut = "redgifs"
    /\ cleared' = FALSE
    /\ tokenUse' = "none"
    /\ cl \in Pending
    /\ cl.pc \in {"trending0", "trendingF", "trendingG"}
    /\ LET got == fetchTrendingMedia(outcome, n)
       IN IF got.kind = "throw"
          THEN /\ R_Reject(cl)
               /\ UNCHANGED <<currentItems, currentIndex, served>>
          ELSE IF cl.pc = "trendingF"
          THEN R_FetchMediaReturn(cl, got.val, currentItems, currentIndex, served)
          ELSE \* lines 267 and 278
               /\ call' = Gone(cl)
               /\ rret' = Resolved(IF Len(got.val) > 0 THEN got.val[1] ELSE NullItem,
                                   cl.exhausted, cl.fetches, TRUE)
               /\ UNCHANGED <<currentItems, currentIndex, served>>
    /\ UNCHANGED <<sut, scrollerVars, pureVars, playerVars, cache, temporaryToken, tokenValid>>

\* Time passes beyond tokenExpiry.
R_TokenExpire ==
    /\ sut = "redgifs"
    /\ tokenValid
    /\ tokenValid' = FALSE
    /\ rret' = NoResolved
    /\ tokenUse' = "none"
    /\ UNCHANGED <<sut, scrollerVars, pureVars, playerVars, cache, currentItems, currentIndex,
                   temporaryToken, call, served, cleared>>

R_OutcomeSizes(outcome) == IF outcome = "ok" THEN {1, MaxFound} ELSE {0}

InitRedgifs ==
    sut = "redgifs" /\ InitScrollerVars /\ InitRedgifsVars /\ InitPlayerVars /\ InitPureVars

NextRedgifs ==
    \/ \E s \in Settings : R_GetNextItem(s.tags, s.allowNsfw)
    \/ \E cl \in Pending, o \in {"neterr", "http", "badjson", "notoken", "ok"} : R_TokenResponse(cl, o)
    \/ \E cl \in Pending, o \in R_Outcomes : \E n \in R_OutcomeSizes(o) : R_SearchResponse(cl, o, n)
    \/ \E cl \in Pending, o \in R_Outcomes : \E n \in R_OutcomeSizes(o) : R_TrendingResponse(cl, o, n)
    \/ R_ClearCache
    \/ R_TokenExpire

SpecRedgifs == InitRedgifs /\ [][NextRedgifs]_vars

\* ================================================================
\* Either service: ScrollerService of scrollerService.ts or
\* RedgifsServiceClass, chosen in the initial state.
\* ================================================================
InitServices ==
    /\ sut \in {"scroller", "redgifs"}
    /\ InitScrollerVars
    /\ InitRedgifsVars /\ InitPlayerVars
    /\ InitPureVars

NextServices == NextScroller \/ NextRedgifs

SpecServices == InitServices /\ [][NextServices]_vars

\* ================================================================
\* The notifications of the catch block of fetchMedia,
\* src/src/utils/scrollerService.ts lines 199-249
\* ================================================================

\* The toast() a step of the call in frame f emits in lines 199-249: the one
\* of line 229 when the call goes into its backoff wait, with retryCount as
\* line 225 has left it, the one of line 241 when it gives up, and none on
\* the returns of lines 205 and 218.
S_Notification(f) ==
    IF frame[f].pc \in {"primary", "secondary"} /\ frame'[f].pc = "backoff"
    THEN [title |-> "Retrying Connection", attempt |-> retryCount']
    ELSE IF /\ frame[f].pc \in {"primary", "secondary"}
            /\ frame'[f].pc = "done"
            /\ frame'[f].outcome = "terminal"
    THEN [title |-> "Connection Failed", attempt |-> 0]
    ELSE [title |-> "none", attempt |-> 0]

\* ================================================================
\* createCacheKey, src/src/utils/redgifsService.ts lines 296-298 (the same
\* function is CacheServiceClass.createCacheKey, cacheService.ts 40-42)
\* ================================================================

\* Longest tags array, and the number of different tags.
MaxTags == 3

\* The rearrangements of an array.
Rearrangements(t) ==
    LET n == Len(t)
        Bijections == {f \in [1..n -> 1..n] : \A i, j \in 1..n : f[i] = f[j] => i = j}
    IN {[i \in 1..n |-> t[f[i]]] : f \in Bijections}

\* The calls that are compared: with the array, with a rearrangement of it,
\* and with the array and the other nsfw flag.
KeyCalls == {"tags", "permuted", "flipped"}

InitCacheKey ==
    /\ sut = "createCacheKey"
    /\ InitScrollerVars
    /\ InitRedgifsVars /\ InitPlayerVars
    \* the non-empty arrays of tags
    /\ \E t \in UNION {[1..n -> 1..MaxTags] : n \in 1..MaxTags}, nsfw \in BOOLEAN :
          \E p \in Rearrangements(t) :
             input = [fn |-> "createCacheKey", tags |-> t, permuted |-> p,
                      includeNsfw |-> nsfw]
    /\ output = [c \in KeyCalls \cup {"settings.tags"} |->
                    IF c = "settings.tags" THEN input.tags ELSE NoKey]

\* One call of createCacheKey.  The calls "tags" and "flipped" are made with
\* the caller's array settings.tags, which tags.sort() of line 297 sorts in
\* place; output["settings.tags"] is that array as the calls have left it.
K_CreateCacheKey(c) ==
    /\ sut = "createCacheKey"
    /\ output[c] = NoKey
    /\ output' = [output EXCEPT
          ![c] =
             CASE c = "tags" -> createCacheKey(output["settings.tags"], input.includeNsfw)
               [] c = "permuted" -> createCacheKey(input.permuted, input.includeNsfw)
               [] c = "flipped" -> createCacheKey(output["settings.tags"], ~input.includeNsfw),
          !["settings.tags"] = IF c = "permuted" THEN @ ELSE Sort(@)]
    /\ UNCHANGED <<sut, scrollerVars, redgifsVars, playerVars, input>>

NextCacheKey == \E c \in KeyCalls : K_CreateCacheKey(c)

SpecCacheKey == InitCacheKey /\ [][NextCacheKey]_vars

\* ================================================================
\* From an upstream answer to MediaItems: the loops of fetchMedia and
\* fetchFromRedditAPI in src/src/utils/scrollerService.ts (144-175, 268-297)
\* and in src/src/pages/Index.tsx (661-704, 782-819)
\* ================================================================

\* Longest list of posts in an upstream answer.
MaxPosts == 2

\* An item of the Scrolller answer read by scrollerService.ts: whether it
\* has a url, its type and its isNsfw flag.
ScrolllerItems ==
    [url : BOOLEAN, type : {"IMAGE", "GIF", "VIDEO"}, isNsfw : BOOLEAN]

\* A post of the Scrolller answer read by Index.tsx: whether it is a Post
\* with a media source, isVideo, whether its url ends in ".gif", isNsfw.
ScrolllerPosts ==
    [post : BOOLEAN, isVideo : BOOLEAN, gifUrl : BOOLEAN, isNsfw : BOOLEAN]

\* A post of the Reddit listing: the extension of url_overridden_by_dest
\* ("" when the post has none or is a self post, "html" for any extension
\* that belongs to no media type), is_video and over_18.
RedditPosts ==
    [ext : {"", "jpg", "gif", "mp4", "html"}, is_video : BOOLEAN, over_18 : BOOLEAN]

Lists(S) == UNION {[1..n -> S] : n \in 0..MaxPosts}

\* A MediaItem of a mapped answer: its type, and the NSFW flag its post had
\* in the upstream answer (MediaItem has no such field).
Mapped(type, flagged) == [type |-> type, flagged |-> flagged]

Enabled(type, settings) ==
    CASE type = "image" -> settings.image
      [] type = "gif" -> settings.gif
      [] type = "video" -> settings.video

\* scrollerService.ts 144-175: every item with a url is kept.
S_MapPrimary(items, settings) ==
    LET Kept(item) == item.url
        Type(item) == CASE item.type = "GIF" -> "gif"
                        [] item.type = "VIDEO" -> "video"
                        [] OTHER -> "image"
        Item1(item) == Mapped(Type(item), item.isNsfw)
        kept == SelectSeq(items, Kept)
    IN [i \in DOMAIN kept |-> Item1(kept[i])]

\* scrollerService.ts 271-297.
S_MapReddit(posts, settings) ==
    LET isImage(p) == p.ext \in {"jpg", "gif"}
        isVideo(p) == p.ext = "mp4" \/ p.is_video
        isGifUrl(p) == p.ext = "gif"
        Kept(p) == /\ p.ext # ""
                   /\ \/ isImage(p) /\ settings.image
                      \/ isVideo(p) /\ settings.video
                      \/ isGifUrl(p) /\ settings.gif
                   /\ ~(p.over_18 /\ ~settings.allowNsfw)
        Type(p) == IF isVideo(p) THEN "video"
                   ELSE IF isGifUrl(p) THEN "gif" ELSE "image"
        Item1(p) == Mapped(Type(p), p.over_18)
        kept == SelectSeq(posts, Kept)
    IN [i \in DOMAIN kept |-> Item1(kept[i])]

\* Index.tsx 661-704 (the answers considered are shorter than limit).
I_MapPrimary(posts, settings) ==
    LET Type(p) == IF p.isVideo THEN "video"
                   ELSE IF p.gifUrl THEN "gif" ELSE "image"
        Kept(p) == /\ p.post
                   /\ ~(p.isNsfw /\ ~settings.allowNsfw)
                   /\ Enabled(Type(p), settings)
        Item1(p) == Mapped(Type(p), p.isNsfw)
        kept == SelectSeq(posts, Kept)
    IN [i \in DOMAIN kept |-> Item1(kept[i])]

\* Index.tsx 782-819.
I_MapReddit(posts, settings) ==
    LET isVideo(p) == p.ext = "mp4" \/ p.is_video
        Type(p) == IF p.ext = "gif" THEN "gif"
                   ELSE IF isVideo(p) THEN "video" ELSE "image"
        Kept(p) == /\ p.ext # ""
                   /\ Enabled(Type(p), settings)
                   /\ ~(p.over_18 /\ ~settings.allowNsfw)
        Item1(p) == Mapped(Type(p), p.over_18)
        kept == SelectSeq(posts, Kept)
    IN [i \in DOMAIN kept |-> Item1(kept[i])]

MappingInput(fn, posts, settings) ==
    [fn |-> fn, posts |-> posts, settings |-> settings]

InitMapping ==
    /\ sut = "mapping"
    /\ InitScrollerVars
    /\ InitRedgifsVars /\ InitPlayerVars
    \* settings.allowNsfw and settings.mediaTypes
    /\ \E settings \in [allowNsfw : BOOLEAN, image : BOOLEAN, gif : BOOLEAN,
                        video : BOOLEAN] :
          \/ \E posts \in Lists(ScrolllerItems) :
                input = MappingInput("S_MapPrimary", posts, settings)
          \/ \E posts \in Lists(RedditPosts) :
                input \in {MappingInput("S_MapReddit", posts, settings),
                           MappingInput("I_MapReddit", posts, settings)}
          \/ \E posts \in Lists(ScrolllerPosts) :
                input = MappingInput("I_MapPrimary", posts, settings)
    /\ output = NoOutput

Returned(items) == [fn |-> input.fn, items |-> items]

M_ScrollerPrimary ==
    /\ sut = "mapping" /\ input.fn = "S_MapPrimary" /\ output = NoOutput
    /\ output' = Returned(S_MapPrimary(input.posts, input.settings))
    /\ UNCHANGED <<sut, scrollerVars, redgifsVars, playerVars, input>>

M_ScrollerReddit ==
    /\ sut = "mapping" /\ input.fn = "S_MapReddit" /\ output = NoOutput
    /\ output' = Returned(S_MapReddit(input.posts, input.settings))
    /\ UNCHANGED <<sut, scrollerVars, redgifsVars, playerVars, input>>

M_IndexPrimary ==
    /\ sut = "mapping" /\ input.fn = "I_MapPrimary" /\ output = NoOutput
    /\ output' = Returned(I_MapPrimary(input.posts, input.settings))
    /\ UNCHANGED <<sut, scrollerVars, redgifsVars, playerVars, input>>

M_IndexReddit ==
    /\ sut = "mapping" /\ input.fn = "I_MapReddit" /\ output = NoOutput
    /\ output' = Returned(I_MapReddit(input.posts, input.settings))
    /\ UNCHANGED <<sut, scrollerVars, redgifsVars, playerVars, input>>

NextMapping ==
    \/ M_ScrollerPrimary
    \/ M_ScrollerReddit
    \/ M_IndexPrimary
    \/ M_IndexReddit

SpecMapping == InitMapping /\ [][NextMapping]_vars

\* ================================================================
\* mapApiResponseToMediaItems, src/src/utils/redgifsService.ts 303-372
\* ================================================================

\* Longest array of upstream items.
MaxItems == 2
\* Most url fields one upstream item carries.
MaxFields == 2

\* An upstream item: the url fields that hold a non-empty string, whether
\* its urls are protocol-relative ("//host/...") or absolute
\* ("https://host/..."), and whether item.url ends with ".mp4".
UpstreamItems ==
    {it \in [present : SUBSET {"urls.hd", "urls.mp4", "content_urls.mp4",
                                "mp4Url", "url", "urls.sd"},
             relative : BOOLEAN, urlMp4 : BOOLEAN] :
        /\ Cardinality(it.present) <= MaxFields
        /\ it.urlMp4 => "url" \in it.present}

\* A string, as the sequence of its parts.  The value of a field of an
\* item: empty when the field is missing.
FieldValue(it, f) ==
    IF f \notin it.present THEN <<>>
    ELSE (IF it.relative THEN <<>> ELSE <<"https:">>)
         \o <<"//host/", f>>
         \o (IF f = "url" /\ it.urlMp4 THEN <<".mp4">> ELSE <<>>)

startsWithHttp(s) == s # <<>> /\ Head(s) \in {"http:", "https:"}

\* First non-empty string of a list of strings, "" when there is none: the
\* if / else if chains of lines 321-325 and 329-330.
RECURSIVE FirstOf(_)
FirstOf(ss) ==
    IF ss = <<>> THEN <<>>
    ELSE IF Head(ss) # <<>> THEN Head(ss) ELSE FirstOf(Tail(ss))

\* A normalisation that would leave a url as it is.
R_AsIs(mediaUrl) == mediaUrl

\* Lines 348-350: a url that does not start with "http" gets "https:" in
\* front.
R_Absolute(mediaUrl) ==
    IF mediaUrl # <<>> /\ ~startsWithHttp(mediaUrl)
    THEN <<"https:">> \o mediaUrl
    ELSE mediaUrl

\* Lines 318-331: the media url of an upstream item, "" when it has none.
R_MediaUrl(it) ==
    LET url == FieldValue(it, "url")
        hd == FirstOf(<<FieldValue(it, "urls.hd"), FieldValue(it, "urls.mp4"),
                        FieldValue(it, "content_urls.mp4"), FieldValue(it, "mp4Url"),
                        \* item.url.endsWith('.mp4'), line 325
                        IF url # <<>> /\ url[Len(url)] = ".mp4"
                        THEN url ELSE <<>> >>)
    IN IF hd # <<>> THEN hd
       ELSE FirstOf(<<FieldValue(it, "urls.sd"), FieldValue(it, "url")>>)

\* mapApiResponseToMediaItems(items): the items with a media url, each
\* mapped to a MediaItem (of which id, url and type are kept here; id is the
\* place of the upstream item in the array).
mapApiResponseToMediaItems(isArray, items) ==
    IF ~isArray THEN <<>>
    ELSE LET numbered == [i \in DOMAIN items |-> [id |-> i, item |-> items[i]]]
             Usable(e) == R_MediaUrl(e.item) # <<>>
             kept == SelectSeq(numbered, Usable)
         IN [i \in DOMAIN kept |->
                [id |-> kept[i].id,
                 url |-> R_Absolute(R_MediaUrl(kept[i].item)),
                 type |-> "video"]]

InitMapper ==
    /\ sut = "mapper"
    /\ InitScrollerVars
    /\ InitRedgifsVars /\ InitPlayerVars
    /\ \/ input = [fn |-> "mapApiResponseToMediaItems", isArray |-> FALSE, items |-> <<>>]
       \/ \E n \in 0..MaxItems :
             \E items \in [1..n -> UpstreamItems] :
                input = [fn |-> "mapApiResponseToMediaItems", isArray |-> TRUE,
                         items |-> items]
    /\ output = NoOutput

\* One call of mapApiResponseToMediaItems.
P_MapApiResponse ==
    /\ sut = "mapper"
    /\ output = NoOutput
    /\ output' = [fn |-> input.fn,
                  items |-> mapApiResponseToMediaItems(input.isArray, input.items)]
    /\ UNCHANGED <<sut, scrollerVars, redgifsVars, playerVars, input>>

NextMapper == P_MapApiResponse

SpecMapper == InitMapper /\ [][NextMapper]_vars

\* ================================================================
\* preloadMedia, src/unnamed/part_001 lines 18-54 (with the 5 s timer) and
\* src/src/hooks/useMediaPlayer.tsx lines 18-33 (without it)
\* ================================================================

\* HTMLMediaElement.readyState: HAVE_NOTHING = 0 ... HAVE_ENOUGH_DATA = 4.
HAVE_FUTURE_DATA == 3

\* A preloadMedia call and the element it created: the file the function is
\* taken from, the type argument, readyState of the video element, whether
\* the element has fired its load event (onload, oncanplaythrough) and its
\* error event, and whether 5 s have passed since the call.
PreloadCall(variant, type) ==
    [fn |-> "preloadMedia", variant |-> variant, type |-> type,
     readyState |-> 0, loaded |-> FALSE, error |-> FALSE, elapsed |-> FALSE]

\* resolve() and reject() settle a pending promise and do nothing to a
\* settled one.
Settle1(to) ==
    IF output.promise = "pending"
    THEN [fn |-> "preloadMedia", promise |-> to]
    ELSE output

InitPreload ==
    /\ sut = "preloadMedia"
    /\ InitScrollerVars
    /\ InitRedgifsVars /\ InitPlayerVars
    /\ \E variant \in {"part_001", "useMediaPlayer"}, type \in {"image", "gif", "video"} :
          input = PreloadCall(variant, type)
    \* the promise preloadMedia returns
    /\ output = [fn |-> "preloadMedia", promise |-> "pending"]

\* The video element gets more data, or loses some (the buffer runs dry).
P_ReadyState(rs) ==
    /\ sut = "preloadMedia"
    /\ input.type = "video"
    /\ ~input.error
    /\ rs \in {input.readyState - 1, input.readyState + 1} \cap (0..4)
    /\ input' = [input EXCEPT !.readyState = rs]
    /\ UNCHANGED <<sut, scrollerVars, redgifsVars, playerVars, output>>

\* img.onload (part_001 22-25), video.oncanplaythrough (35-38): readyState
\* has become HAVE_ENOUGH_DATA.  The event is dispatched by a task of its
\* own, after readyState has changed.
P_Loaded ==
    /\ sut = "preloadMedia"
    /\ ~input.loaded /\ ~input.error
    /\ input.type = "video" => input.readyState = 4
    /\ input' = [input EXCEPT !.loaded = TRUE]
    /\ output' = Settle1("resolved")
    /\ UNCHANGED <<sut, scrollerVars, redgifsVars, playerVars, playerVars>>

\* img.onerror (26-29), video.onerror (39-42).
P_Error ==
    /\ sut = "preloadMedia"
    /\ ~input.error
    /\ input.type \in {"image", "gif"} => ~input.loaded
    /\ input' = [input EXCEPT !.error = TRUE]
    /\ output' = Settle1("rejected")
    /\ UNCHANGED <<sut, scrollerVars, redgifsVars, playerVars, playerVars>>

\* 5 s after the call.  part_001 46-51: the timer callback of a video
\* resolves when readyState < 3.  useMediaPlayer.tsx sets no timer.
P_FiveSeconds ==
    /\ sut = "preloadMedia"
    /\ ~input.elapsed
    /\ input' = [input EXCEPT !.elapsed = TRUE]
    /\ output' = IF /\ input.variant = "part_001"
                    /\ input.type = "video"
                    /\ input.readyState < HAVE_FUTURE_DATA
                 THEN Settle1("resolved")
                 ELSE output
    /\ UNCHANGED <<sut, scrollerVars, redgifsVars, playerVars, playerVars>>

NextPreload ==
    \/ \E rs \in (0..4) : P_ReadyState(rs)
    \/ P_Loaded
    \/ P_Error
    \/ P_FiveSeconds

SpecPreload == InitPreload /\ [][NextPreload]_vars

\* ================================================================
\* getRandomBpm, src/src/utils/metronomeService.ts lines 55-58, and the
\* tempo-change timer of src/src/hooks/useMediaPlayer.tsx lines 224-253
\* ================================================================

\* Largest |slowestBpm|, |fastestBpm|.
MaxBpm == 4
\* Math.random() is one of 0/RandomSteps .. (RandomSteps-1)/RandomSteps.
RandomSteps == 16

\* A rounding to the nearest integer, of num/den with den > 0.
MathRound(num, den) == (2 * num + den) \div (2 * den)

\* Math.floor of num/den, den > 0.
MathFloor(num, den) == num \div den

\* getRandomBpm(min, max) when Math.random() returns draw/RandomSteps:
\* Math.floor(Math.random() * (max - min + 1)) + min.
getRandomBpm(min, max, draw) == MathFloor(draw * (max - min + 1), RandomSteps) + min

InitBpm ==
    /\ sut = "getRandomBpm"
    /\ InitScrollerVars
    /\ InitRedgifsVars /\ InitPlayerVars
    /\ \E s \in {r \in [slowestBpm : -MaxBpm..MaxBpm, fastestBpm : -MaxBpm..MaxBpm] :
                    r.slowestBpm <= r.fastestBpm} :
          input = [fn |-> "getRandomBpm", slowestBpm |-> s.slowestBpm,
                   fastestBpm |-> s.fastestBpm]
    /\ output = NoOutput

\* useMediaPlayer.tsx 224-234: the tempo chosen when the settings arrive.
B_InitialBpm(draw) ==
    /\ sut = "getRandomBpm"
    /\ output = NoOutput
    /\ output' = [fn |-> "initial",
                  bpm |-> getRandomBpm(input.slowestBpm, input.fastestBpm, draw)]
    /\ UNCHANGED <<sut, scrollerVars, redgifsVars, playerVars, input>>

\* useMediaPlayer.tsx 246-253: the tempo chosen by the tempo-change timer.
B_BpmTimer(draw) ==
    /\ sut = "getRandomBpm"
    /\ output # NoOutput
    /\ output' = [fn |-> "timer",
                  bpm |-> getRandomBpm(input.slowestBpm, input.fastestBpm, draw)]
    /\ UNCHANGED <<sut, scrollerVars, redgifsVars, playerVars, input>>

NextBpm ==
    \/ \E draw \in (0..(RandomSteps - 1)) : B_InitialBpm(draw)
    \/ \E draw \in (0..(RandomSteps - 1)) : B_BpmTimer(draw)

SpecBpm == InitBpm /\ [][NextBpm]_vars

\* ================================================================
\* useMediaPlayer, src/unnamed/part_001 lines 6-269, mounted by Player,
\* src/src/types/index.ts lines 47-222.  RedgifsService.getNextItem is
\* taken by its signature: each call resolves to an item or to null.
\* ================================================================

\* Most getNextItem calls of one run.
MaxIssued == 4

\* fetchAttemptsRef.current < 3, part_001 line 189.
MAX_FETCH_ATTEMPTS == 3

\* useState(initialState): the state is initialState in the first render
\* and the stored state in every later one, whatever the argument is then.
useState(stored, initialState, firstRender) ==
    IF firstRender THEN initialState ELSE stored

\* getNextItem calls not yet resolved.
Outstanding ==
    (IF initial.pc = "first" THEN 1 ELSE 0) + fetching + rotating + loading

\* A preloadMedia call with no .catch() on its promise.
H_NotCaught == FALSE

\* The promise of preloadMedia has a .catch() handler, lines 73 and 118.
H_Caught == TRUE

\* Player's effect on mediaError, types/index.ts lines 106-110, after the
\* hook has set errorMessage to message.
PageError(message) ==
    IF message # "null" /\ message # errorMessage THEN TRUE ELSE pageError

\* The rotation timer effect, lines 135-155, after currentMedia has changed:
\* the timer's rotateMedia is the one of this render and sees its nextMedia.
TimerFor(next) == [set |-> TRUE, next |-> next]

\* The first render of Player and of the hook, types/index.ts lines 52 and
\* 101, part_001 line 8.
P_FirstRender ==
    /\ sut = "player"
    /\ stage = "new"
    /\ stage' = "rendered"
    /\ hookSettings' = useState(hookSettings, initialSettings, TRUE)
    /\ hev' = "none"
    /\ UNCHANGED <<sut, scrollerVars, redgifsVars, pureVars, initialSettings,
                   saved, pageSettings, pageError, currentMedia, nextMedia,
                   loadingMedia, errorMessage, fetchAttempts, mediaTimer,
                   retryTimers, initial, fetching, rotating, loading,
                   preloads, issued, received, unhandled>>

\* The initial load effect, lines 57-104, up to the await of line 66.
H_LoadInitialMedia ==
    /\ loadingMedia' = TRUE
    /\ errorMessage' = "null"
    /\ initial' = [pc |-> "first", firstItem |-> NoMedia]
    /\ issued' = issued + 1
    /\ fetchAttempts' = 0

\* The effects of the first render: Player reads the saved settings,
\* types/index.ts lines 63-92, and the hook runs its initial load effect.
P_MountEffects ==
    /\ sut = "player"
    /\ stage = "rendered"
    /\ stage' = "mounted"
    /\ pageSettings' = IF saved \in {"notags", "tags"} THEN saved ELSE NoSettings
    /\ pageError' = (saved \in {"missing", "invalid"})
    /\ IF hookSettings = "tags"
       THEN H_LoadInitialMedia
       ELSE UNCHANGED <<loadingMedia, errorMessage, initial, issued, fetchAttempts>>
    /\ hev' = "none"
    /\ UNCHANGED <<sut, scrollerVars, redgifsVars, pureVars, initialSettings,
                   saved, hookSettings, currentMedia, nextMedia, mediaTimer,
                   retryTimers, fetching, rotating, loading, preloads, received,
                   unhandled>>

\* Player renders again with the settings it has read and calls
\* useMediaPlayer(settings), types/index.ts line 101; the initial load
\* effect runs again when the settings state of the hook has changed.
P_Rerender ==
    /\ sut = "player"
    /\ stage = "mounted"
    /\ pageSettings # NoSettings
    /\ stage' = "settled"
    /\ hookSettings' = useState(hookSettings, pageSettings, FALSE)
    /\ IF hookSettings' # hookSettings /\ hookSettings' = "tags"
       THEN H_LoadInitialMedia
       ELSE UNCHANGED <<loadingMedia, errorMessage, initial, issued, fetchAttempts>>
    /\ hev' = "none"
    /\ UNCHANGED <<sut, scrollerVars, redgifsVars, pureVars, initialSettings,
                   saved, pageSettings, pageError, currentMedia, nextMedia,
                   mediaTimer, retryTimers, fetching, rotating, loading,
                   preloads, received, unhandled>>

\* The getNextItem call of loadInitialMedia resolves, lines 66-90.
H_FirstItem(answer) ==
    /\ sut = "player"
    /\ initial.pc = "first"
    /\ IF answer = "item"
       THEN \* lines 68-75: preloadMedia is awaited
            /\ received' = received + 1
            /\ initial' = [pc |-> "preload", firstItem |-> received + 1]
            /\ UNCHANGED <<errorMessage, loadingMedia, pageError>>
       ELSE \* lines 86-90
            /\ errorMessage' = "No media found"
            /\ pageError' = PageError("No media found")
            /\ loadingMedia' = FALSE
            /\ initial' = [pc |-> "done", firstItem |-> NoMedia]
            /\ UNCHANGED received
    /\ hev' = "none"
    /\ UNCHANGED <<sut, scrollerVars, redgifsVars, pureVars, stage,
                   initialSettings, saved, pageSettings, hookSettings,
                   currentMedia, nextMedia, fetchAttempts, mediaTimer,
                   retryTimers, fetching, rotating, loading, preloads, issued,
                   unhandled>>

\* The awaited preloadMedia promise of line 73 settles.  Its rejection is
\* taken by the .catch() of line 73, and would be taken by the catch of
\* line 76 without it.  Lines 80-90 follow: setCurrentMedia,
\* fetchNextMediaItem up to its await, setLoadingMedia(false).
H_FirstPreload(settlement) ==
    /\ sut = "player"
    /\ initial.pc = "preload"
    /\ issued < MaxIssued
    /\ currentMedia' = initial.firstItem
    /\ mediaTimer' = TimerFor(nextMedia)
    /\ fetching' = fetching + 1
    /\ issued' = issued + 1
    /\ loadingMedia' = FALSE
    /\ initial' = [pc |-> "done", firstItem |-> initial.firstItem]
    /\ hev' = IF settlement = "reject" THEN "awaited rejected" ELSE "awaited resolved"
    /\ UNCHANGED <<sut, scrollerVars, redgifsVars, pureVars, stage,
                   initialSettings, saved, pageSettings, pageError, hookSettings,
                   nextMedia, errorMessage, fetchAttempts, retryTimers,
                   rotating, loading, preloads, received, unhandled>>

\* The getNextItem call of a fetchNextMediaItem resolves, lines 112-127.
H_NextItem(answer) ==
    /\ sut = "player"
    /\ fetching > 0
    /\ fetching' = fetching - 1
    /\ IF answer = "item"
       THEN /\ received' = received + 1
            /\ preloads' = preloads + 1
            /\ nextMedia' = received + 1
       ELSE UNCHANGED <<received, preloads, nextMedia>>
    /\ hev' = "none"
    /\ UNCHANGED <<sut, scrollerVars, redgifsVars, pureVars, stage,
                   initialSettings, saved, pageSettings, pageError, hookSettings,
                   currentMedia, loadingMedia, errorMessage, fetchAttempts,
                   mediaTimer, retryTimers, initial, rotating, loading, issued,
                   unhandled>>

\* A preloadMedia promise of line 118 settles; nothing awaits it.
H_PreloadSettles(settlement) ==
    /\ sut = "player"
    /\ preloads > 0
    /\ preloads' = preloads - 1
    /\ unhandled' = (unhandled \/ (settlement = "reject" /\ ~H_Caught))
    /\ hev' = IF settlement = "reject" THEN "background rejected"
              ELSE "background resolved"
    /\ UNCHANGED <<sut, scrollerVars, redgifsVars, pureVars, stage,
                   initialSettings, saved, pageSettings, pageError, hookSettings,
                   currentMedia, nextMedia, loadingMedia, errorMessage,
                   fetchAttempts, mediaTimer, retryTimers, initial, fetching,
                   rotating, loading, issued, received>>

\* rotateMedia, lines 158-200, up to its await, called from a render in
\* which nextMedia was next; timer is the rotation timer left by the caller.
rotateMedia(next, timer) ==
    /\ issued < MaxIssued
    /\ issued' = issued + 1
    /\ IF next # NoMedia
       THEN \* lines 165-171 and 199
            /\ currentMedia' = next
            /\ nextMedia' = NoMedia
            /\ mediaTimer' = TimerFor(NoMedia)
            /\ fetching' = fetching + 1
            /\ loadingMedia' = FALSE
            /\ UNCHANGED rotating
       ELSE \* lines 162 and 175
            /\ rotating' = rotating + 1
            /\ loadingMedia' = TRUE
            /\ mediaTimer' = timer
            /\ UNCHANGED <<currentMedia, nextMedia, fetching>>

\* The rotation timer fires, lines 144-147.
H_TimerFires ==
    /\ sut = "player"
    /\ mediaTimer.set
    /\ rotateMedia(mediaTimer.next, NoTimer)
    /\ hev' = "none"
    /\ UNCHANGED <<sut, scrollerVars, redgifsVars, pureVars, stage,
                   initialSettings, saved, pageSettings, pageError, hookSettings,
                   errorMessage, fetchAttempts, retryTimers, initial, loading,
                   preloads, received, unhandled>>

\* skipToNext, lines 203-221, called by the Skip button of the toolbar or by
\* onError of the displayed media (MediaDisplay.tsx lines 171-175 and
\* 190-193); Player shows neither in its error view.
H_SkipToNext ==
    /\ sut = "player"
    /\ stage \notin {"new", "rendered"}
    /\ hookSettings # NoSettings
    /\ ~pageError
    /\ rotateMedia(nextMedia, NoTimer)
    /\ hev' = "none"
    /\ UNCHANGED <<sut, scrollerVars, redgifsVars, pureVars, stage,
                   initialSettings, saved, pageSettings, pageError, hookSettings,
                   errorMessage, fetchAttempts, retryTimers, initial, loading,
                   preloads, received, unhandled>>

\* The getNextItem call of a rotateMedia resolves, lines 175-199.
H_RotateItem(answer) ==
    /\ sut = "player"
    /\ rotating > 0
    /\ rotating' = rotating - 1
    /\ IF answer = "item"
       THEN \* lines 177-182 and 199
            /\ issued < MaxIssued
            /\ received' = received + 1
            /\ currentMedia' = received + 1
            /\ mediaTimer' = TimerFor(nextMedia)
            /\ fetching' = fetching + 1
            /\ issued' = issued + 1
            /\ loadingMedia' = FALSE
            /\ UNCHANGED <<errorMessage, pageError, fetchAttempts, retryTimers>>
       ELSE \* lines 184-196 and 199
            /\ errorMessage' = "Unable to load more media"
            /\ pageError' = PageError("Unable to load more media")
            /\ IF fetchAttempts < MAX_FETCH_ATTEMPTS
               THEN /\ fetchAttempts' = fetchAttempts + 1
                    /\ retryTimers' = retryTimers + 1
                    /\ UNCHANGED loadingMedia
               ELSE /\ loadingMedia' = FALSE
                    /\ UNCHANGED <<fetchAttempts, retryTimers>>
            /\ UNCHANGED <<received, currentMedia, mediaTimer, fetching, issued>>
    /\ hev' = "none"
    /\ UNCHANGED <<sut, scrollerVars, redgifsVars, pureVars, stage,
                   initialSettings, saved, pageSettings, hookSettings, nextMedia,
                   initial, loading, preloads, unhandled>>

\* A 1 s timer of line 193 fires: rotateMedia of the render its caller was
\* of, in which nextMedia was null.
H_RetryTimer ==
    /\ sut = "player"
    /\ retryTimers > 0
    /\ retryTimers' = retryTimers - 1
    /\ rotateMedia(NoMedia, mediaTimer)
    /\ hev' = "none"
    /\ UNCHANGED <<sut, scrollerVars, redgifsVars, pureVars, stage,
                   initialSettings, saved, pageSettings, pageError, hookSettings,
                   errorMessage, fetchAttempts, initial, loading, preloads,
                   received, unhandled>>

\* retryLoading, lines 224-250, called by the Retry button of Player's error
\* view (types/index.ts lines 147-158), up to the await of line 236.
H_RetryLoading ==
    /\ sut = "player"
    /\ pageError
    /\ pageError' = FALSE
    /\ errorMessage' = "null"
    /\ fetchAttempts' = 0
    /\ IF hookSettings # NoSettings
       THEN /\ issued < MaxIssued
            /\ issued' = issued + 1
            /\ loading' = loading + 1
            /\ loadingMedia' = TRUE
       ELSE UNCHANGED <<issued, loading, loadingMedia>>
    /\ hev' = "none"
    /\ UNCHANGED <<sut, scrollerVars, redgifsVars, pureVars, stage,
                   initialSettings, saved, pageSettings, hookSettings,
                   currentMedia, nextMedia, mediaTimer, retryTimers, initial,
                   fetching, rotating, preloads, received, unhandled>>

\* The getNextItem call of a loadMedia resolves, lines 236-245.
H_LoadItem(answer) ==
    /\ sut = "player"
    /\ loading > 0
    /\ loading' = loading - 1
    /\ IF answer = "item"
       THEN /\ issued < MaxIssued
            /\ received' = received + 1
            /\ currentMedia' = received + 1
            /\ mediaTimer' = TimerFor(nextMedia)
            /\ fetching' = fetching + 1
            /\ issued' = issued + 1
            /\ UNCHANGED <<errorMessage, pageError>>
       ELSE /\ errorMessage' = "Still unable to load media"
            /\ pageError' = PageError("Still unable to load media")
            /\ UNCHANGED <<received, currentMedia, mediaTimer, fetching, issued>>
    /\ loadingMedia' = FALSE
    /\ hev' = "none"
    /\ UNCHANGED <<sut, scrollerVars, redgifsVars, pureVars, stage,
                   initialSettings, saved, pageSettings, hookSettings, nextMedia,
                   fetchAttempts, retryTimers, initial, rotating, preloads,
                   unhandled>>

\* Player passes null in its first render (types/index.ts lines 52 and
\* 101); the other values are the hook called at once with the settings
\* that are saved.
InitPlayer ==
    /\ sut = "player"
    /\ InitScrollerVars
    /\ InitRedgifsVars
    /\ InitPureVars
    /\ stage = "new"
    \* a settings object: null, without tags, with tags
    /\ initialSettings \in {NoSettings, "notags", "tags"}
    \* sessionStorage.getItem('playerSettings'): nothing, a string JSON.parse
    \* throws on, or a settings object without or with tags
    /\ saved \in {"missing", "invalid", "notags", "tags"}
    /\ initialSettings # NoSettings => saved = initialSettings
    /\ pageSettings = NoSettings
    /\ pageError = FALSE
    /\ InitHookVars

NextPlayer ==
    \/ P_FirstRender
    \/ P_MountEffects
    \/ P_Rerender
    \/ \E a \in {"item", "null"} : H_FirstItem(a)
    \/ \E s \in {"resolve", "reject"} : H_FirstPreload(s)
    \/ \E a \in {"item", "null"} : H_NextItem(a)
    \/ \E s \in {"resolve", "reject"} : H_PreloadSettles(s)
    \/ H_TimerFires
    \/ H_SkipToNext
    \/ \E a \in {"item", "null"} : H_RotateItem(a)
    \/ H_RetryTimer
    \/ H_RetryLoading
    \/ \E a \in {"item", "null"} : H_LoadItem(a)

SpecPlayer == InitPlayer /\ [][NextPlayer]_vars

\* The same with every step that can be taken taken in the end: promises
\* settle, timers fire and React renders.
SpecPlayerFair == SpecPlayer /\ WF_vars(NextPlayer)

\* ================================================================
\* Properties
\* ================================================================

\* C1: after clearCache() has returned, no getNextItem call made later
\* returns an item of a batch whose fetch was started, or whose refill timer
\* was set, before the clear.  (ret.stale marks a call that was itself
\* waiting when the cache was cleared.)
C1_NoStaleServing == IsMedia(ret.val) /\ ~ret.stale => ~ret.val.stale

\* C2: single-flight, at most one upstream request issued by fetchMedia is
\* in flight at any time.
C2_SingleFlight == Cardinality({f \in Frames : InFlight(frame[f])}) <= 1

\* C3: a fetchMedia call that runs with no other call active and gets only
\* transport failures returns the terminal fallback after exactly
\* MAX_RETRIES backoff waits.
C3_ExactlyMaxRetries ==
    \A f \in Frames :
        frame[f].pc = "done" /\ obs.f = f /\ obs.alone /\ obs.allFailed
        => frame[f].outcome = "terminal" /\ obs.retries = MAX_RETRIES

C5_NeverRejects ==
    /\ \A f \in Frames : frame[f].outcome # "rejected"
    /\ ret.val # RejectedItem
    /\ rret.val # RejectedItem

C5_Witness ==
    \E f \in Frames :
        /\ frame[f].pc = "done"
        /\ frame[f].outcome = "terminal"
        /\ obs.f = f
        /\ obs.allFailed

\* C6: when the fetchMedia call that getNextItem awaited on an empty cache
\* resolved to a non-empty list, getNextItem returns an item, not null.
C6_FetchedBatchServed == ret.fetched > 0 => IsMedia(ret.val)

\* C7: a getNextItem call made when all N items of a batch of N have been
\* served issues exactly one search or trending request before it returns.
C7_OneFetchWhenExhausted ==
    rret # NoResolved /\ rret.exhausted => rret.fetches = 1

C9_InsertionOrder ==
    /\ currentIndex <= Len(currentItems)
    /\ served = SubSeq(currentItems, 1, currentIndex)

C9_Witness ==
    /\ Len(currentItems) = MaxFound
    /\ currentIndex = Len(currentItems)
    /\ Len(served) = MaxFound

\* C10: 0 <= currentIndex <= currentItems.length in every state; getNextItem
\* resolves to an item or to null, never to undefined; a call that found the
\* cursor exhausted has awaited a fetch before it returned.
C10_CursorInvariant ==
    /\ 0 <= currentIndex
    /\ currentIndex <= Len(currentItems)
    /\ rret # NoResolved => IsMedia(rret.val) \/ rret.val = NullItem
    /\ rret # NoResolved /\ rret.exhausted => rret.awaited

C10_Witness ==
    /\ rret.exhausted
    /\ rret.awaited
    /\ IsMedia(rret.val)
    /\ currentIndex = 1

\* C11: when the client's clearCache() has returned, the result cache has no
\* entry, currentItems is empty and currentIndex is 0; a getNextItem call
\* made then serves nothing stored: it does not resolve in that step and is
\* left waiting for a request it has issued.
C11_ClearResets ==
    /\ [](cleared => cache = EmptyCache /\ currentItems = <<>> /\ currentIndex = 0)
    /\ [][cleared /\ (\E s \in Settings : R_GetNextItem(s.tags, s.allowNsfw))
          => /\ rret' = NoResolved
             /\ BagCardinality(call') = BagCardinality(call) + 1]_vars

C11_Witness ==
    /\ cleared
    /\ currentIndex = 0
    /\ \E cl \in Pending : cl.pc = "search"

\* C12: for a non-empty tags array, createCacheKey gives the same key for
\* every rearrangement of the array, and different keys for nsfw = true and
\* nsfw = false.
C12_KeyOrderIndependent ==
    sut = "createCacheKey" =>
        /\ output["tags"] # NoKey /\ output["permuted"] # NoKey
           => output["tags"] = output["permuted"]
        /\ output["tags"] # NoKey /\ output["flipped"] # NoKey
           => output["tags"] # output["flipped"]

C12_Witness ==
    /\ sut = "createCacheKey"
    /\ input.tags # input.permuted
    /\ \A c \in KeyCalls : output[c] # NoKey

\* C13: the batch fetchMedia got from the search request for a key is stored
\* in the cache under that key (line 182).  Until the client calls
\* clearCache() the entry stays as it is, whatever other keys are fetched, and
\* a fetchMedia call for the same nsfw flag and the same tags in any order
\* returns it and issues no request.  fetchMedia is called by a getNextItem
\* call that finds no unserved item; as it issues no request, that call
\* resolves in the same step, with the first item of the batch.
C13_CachedUntilCleared ==
    [][/\ \A k \in Keys :
             cache[k] # <<>> /\ ~R_ClearCache => cache'[k] = cache[k]
       /\ \A s \in Settings :
             LET key == createCacheKey(s.tags, s.allowNsfw)
             IN /\ s.tags # <<>>
                /\ R_Exhausted(currentItems, currentIndex)
                /\ cache[key] # <<>>
                /\ R_GetNextItem(s.tags, s.allowNsfw)
                => /\ rret' # NoResolved
                   /\ rret'.fetches = 0
                   /\ currentItems' = cache[key]
                   /\ rret'.val = cache[key][1]]_vars

\* C14: with settings.allowNsfw false, no item of a mapped upstream answer
\* comes from a post the answer flags as NSFW (isNsfw, over_18), for the
\* primary and the secondary source.
C14_NoFlaggedItem ==
    sut = "mapping" /\ output # NoOutput /\ ~input.settings.allowNsfw
        => \A i \in DOMAIN output.items : ~output.items[i].flagged

\* C15: every item of a mapped upstream answer has a type that is enabled
\* in settings.mediaTypes.
C15_TypeEnabled ==
    sut = "mapping" /\ output # NoOutput
        => \A i \in DOMAIN output.items :
              Enabled(output.items[i].type, input.settings)

C17_TokenFailOpen ==
    [][\A cl \in Pending, o \in {"neterr", "http", "badjson", "notoken"} :
          R_TokenResponse(cl, o)
          => /\ temporaryToken' = "anonymous"
             /\ tokenValid'
             /\ call' = Moved(cl, [cl EXCEPT !.pc = "search", !.fetches = @ + 1])
             /\ rret' = NoResolved]_vars

C17_Witness ==
    /\ temporaryToken = "anonymous"
    /\ tokenValid
    /\ \E cl \in Pending : cl.pc = "search" /\ cl.fetches = 1

C19_VideoSettledAtTimeout ==
    sut = "preloadMedia" /\ input.type = "video" /\ input.elapsed
        => output.promise # "pending"

\* C20: a getNextItem call with no tags sends the trending request and
\* nothing else; when the request settles the call resolves, to the first
\* item of the trending list when that list is not empty and to null when it
\* is empty or the request failed.  It never rejects.
C20_EmptyTagsTrending ==
    [][/\ R_GetNextItem(<<>>, FALSE)
          => /\ rret' = NoResolved
             /\ \E cl \in BagToSet(call') :
                   /\ cl.pc = "trending0" /\ cl.fetches = 1
                   /\ CopiesIn(cl, call') = CopiesIn(cl, call) + 1
             /\ UNCHANGED <<cache, currentItems, currentIndex>>
       /\ \A cl \in Pending, o \in R_Outcomes :
             \A n \in R_OutcomeSizes(o) :
                cl.pc = "trending0" /\ R_TrendingResponse(cl, o, n)
                => /\ rret'.val = IF o = "ok" THEN Item("trending", FALSE, 1)
                                  ELSE NullItem
                   /\ rret'.fetches = 1
                   /\ call' = Gone(cl)]_vars

C20_Witness ==
    /\ sut = "redgifs"
    /\ rret.val = NullItem
    /\ rret.fetches = 1

\* C21: for integers slowestBpm <= fastestBpm, every tempo getRandomBpm
\* returns, for the initial tempo and for the tempo-change timer and for
\* every value of Math.random(), is an integer with
\* slowestBpm <= tempo <= fastestBpm.
C21_BpmInRange ==
    sut = "getRandomBpm" /\ output # NoOutput
        => /\ output.bpm \in Int
           /\ input.slowestBpm <= output.bpm
           /\ output.bpm <= input.fastestBpm

C21_Witness ==
    /\ sut = "getRandomBpm"
    /\ output # NoOutput
    /\ output.fn = "timer"
    /\ input.slowestBpm < input.fastestBpm
    /\ output.bpm = input.fastestBpm

\* C22: when fetchMedia has returned a non-empty batch of the primary or the
\* secondary source, retryCount is 0 and cachedItems is that batch; and
\* retryCount is 0 whenever no fetchMedia call is active.
C22_RetryCountReset ==
    /\ \A f \in Frames :
          frame[f].pc = "done" /\ frame[f].outcome \in {"primary", "secondary"}
              => retryCount = 0 /\ cachedItems = frame[f].result
    /\ (\A f \in Frames : frame[f].pc = "idle") => retryCount = 0

\* C23: a fetchMedia call whose primary source answered with no usable item
\* goes on to the secondary source at once and does not go into the retry
\* loop for it: the step that ends its wait for the secondary answer does
\* not increment retryCount and does not start the 1 s backoff.
C23_ZeroNotRetried ==
    [][\A f \in Frames :
          frame[f].zero /\ frame'[f] # frame[f]
          => frame'[f].pc # "backoff" /\ retryCount' <= retryCount]_vars

\* C24: every retry cycle of fetchMedia goes through both sources: a call
\* that wakes from its backoff wait (and is not turned away by the isFetching
\* guard) sends the primary request, and a call whose primary request has
\* settled either returns what the primary source gave or sends the
\* secondary request; it never goes from the primary answer straight to the
\* next backoff wait or to the terminal fallback.
C24_WholeSequenceRetried ==
    [][\A f \in Frames :
          /\ frame[f].pc = "backoff" /\ frame'[f].pc # frame[f].pc /\ ~isFetching
             => frame'[f].pc = "primary"
          /\ frame[f].pc = "primary" /\ frame'[f].pc # frame[f].pc
             => \/ frame'[f].pc = "secondary"
                \/ /\ frame'[f].pc = "done"
                   /\ frame'[f].outcome \in {"primary", "empty"}]_vars

\* C25: a fetch that completes while unserved items are queued merges its
\* batch into the queue.  Apart from getNextItem taking the first item, a
\* step that changes a non-empty cachedItems keeps every queued item, in
\* order, and queues no item of the same source that stands before the
\* first queued one in the upstream list (those have been served).
C25_RefillMerged ==
    [][cachedItems # <<>> /\ cachedItems' # cachedItems /\ cachedItems' # Tail(cachedItems)
       => /\ \E k \in 0..(Len(cachedItems') - Len(cachedItems)) :
                SubSeq(cachedItems', k + 1, k + Len(cachedItems)) = cachedItems
          /\ \A j \in DOMAIN cachedItems' :
                ~(/\ cachedItems'[j].src = Head(cachedItems).src
                  /\ cachedItems'[j].i < Head(cachedItems).i)]_vars

\* C26: isFetching is false when a fetchMedia call has settled, whatever
\* path it took, and whenever no fetchMedia call is active; while it is true
\* a request of fetchMedia is in flight, whose answer releases it.
C26_FlagReleased ==
    /\ \A f \in Frames : frame[f].pc = "done" => ~isFetching
    /\ (\A f \in Frames : ~Active(frame[f])) => ~isFetching
    /\ isFetching => \E f \in Frames : InFlight(frame[f])

C26_Witness ==
    /\ sut = "scroller"
    /\ ~isFetching
    /\ \E f \in Frames : frame[f].pc = "done" /\ frame[f].outcome = "terminal"

\* C27: a fetchMedia call that finds isFetching set never resolves to an
\* empty list and starts no request: a call settled by the guard holds a
\* non-empty result, and a getNextItem that called fetchMedia on an empty
\* cache and returned in the same step was handed a non-empty list.
C27_GuardNeverEmpty ==
    /\ [](\A f \in Frames :
            frame[f].pc = "done" /\ frame[f].outcome = "guard" => frame[f].result # <<>>)
    /\ [][gpc = "idle" /\ ret'.fetched >= 0
           => /\ ret'.fetched > 0
              /\ \A f \in Frames : InFlight(frame'[f]) => InFlight(frame[f])]_vars

\* C28: the sequence stored under a cache key changes only when the whole
\* cache is cleared or when the answer of a search request for that key
\* replaces it with the mapped batch; a getNextItem call that serves an item
\* without issuing a request leaves every cache entry as it was.
C28_EntryNotMutated ==
    [][/\ \A k \in Keys :
             cache'[k] # cache[k]
             => \/ cache' = EmptyCache
                \/ /\ \E cl \in Pending : cl.pc = "search" /\ cl.key = k
                   /\ \E n \in 1..MaxFound :
                         cache' = [cache EXCEPT ![k] = Batch("search", FALSE, n)]
       /\ IsMedia(rret'.val) /\ rret'.fetches = 0 => cache' = cache]_vars

C28_Witness ==
    /\ IsMedia(rret.val)
    /\ rret.fetches = 0
    /\ Len(currentItems) > 1
    /\ currentIndex = Len(currentItems)
    /\ \E k \in Keys : cache[k] = currentItems

\* C29: an empty result is never served from the cache.  A search answer
\* with no usable item stores nothing; a getNextItem call that runs
\* fetchMedia for a key with no stored item does not resolve in that step
\* and is left waiting for the token or the search request it has issued;
\* and a call that resolves without having issued a request returns an item.
C29_EmptyNotServed ==
    [][/\ \A cl \in Pending : R_SearchResponse(cl, "zero", 0) => cache' = cache
       /\ \A s \in Settings :
             LET key == createCacheKey(s.tags, s.allowNsfw)
             IN /\ s.tags # <<>>
                /\ R_Exhausted(currentItems, currentIndex)
                /\ cache[key] = <<>>
                /\ R_GetNextItem(s.tags, s.allowNsfw)
                => /\ rret' = NoResolved
                   /\ tokenUse' \in {"reused", "requested"}
                   /\ \E cl \in BagToSet(call') :
                         cl.key = key /\ cl.pc \in {"token", "search"}
       /\ rret' # NoResolved /\ rret'.fetches = 0 => IsMedia(rret'.val)]_vars

C29_Witness ==
    /\ tokenUse \in {"reused", "requested"}
    /\ ~cleared
    /\ \E a \in Pending, b \in Pending :
          /\ a.pc = "trendingF"
          /\ b.pc \in {"token", "search"}
          /\ b.key = a.key
          /\ cache[a.key] = <<>>

\* C30: the url of every item mapApiResponseToMediaItems returns is taken
\* from the first field its upstream item has in the order urls.hd, urls.sd,
\* url, and from one of urls.mp4, content_urls.mp4 and mp4Url only when it
\* has none of these three.
C30_UrlPriority ==
    sut = "mapper" /\ output # NoOutput =>
        \A i \in DOMAIN output.items :
            LET it == input.items[output.items[i].id]
                first == IF "urls.hd" \in it.present THEN {"urls.hd"}
                         ELSE IF "urls.sd" \in it.present THEN {"urls.sd"}
                         ELSE IF "url" \in it.present THEN {"url"}
                         ELSE it.present
            IN \E f \in first :
                  output.items[i].url = R_Absolute(FieldValue(it, f))

\* C31: a rejected preloadMedia promise is never fatal in useMediaPlayer.
\* No promise is rejected with no handler attached; the step in which the
\* awaited preload of the first item is rejected makes that item
\* currentMedia and sets no error message; the step in which a background
\* preload is rejected changes neither errorMessage nor currentMedia nor
\* nextMedia; and an item fetchNextMediaItem receives becomes nextMedia in
\* the step in which it arrives, before its preload has settled.
C31_PreloadFailureNotFatal ==
    /\ [](~unhandled)
    /\ [][/\ hev' = "awaited rejected"
             => /\ currentMedia' = initial.firstItem
                /\ currentMedia' # NoMedia
                /\ errorMessage' = errorMessage
                /\ pageError' = pageError
          /\ hev' = "background rejected"
             => /\ errorMessage' = errorMessage
                /\ currentMedia' = currentMedia
                /\ nextMedia' = nextMedia
          /\ fetching' < fetching /\ received' # received
             => nextMedia' = received' /\ preloads' = preloads + 1]_vars

C31_Witness ==
    /\ hev = "background rejected"
    /\ currentMedia # NoMedia
    /\ nextMedia # NoMedia
    /\ errorMessage = "null"
    /\ ~unhandled

\* C32: fetchMedia notifies at each key transition.  The step that takes a
\* call into a backoff wait emits "Retrying Connection" with an attempt
\* number from 1 to MAX_RETRIES, which for a call that runs alone is the
\* number of waits the call has taken; the step in which a call gives up
\* emits "Connection Failed"; and the step in which a call returns the items
\* of the primary or of the secondary source emits a notification too.
C32_Notifications ==
    [][\A f \in Frames :
          /\ frame[f].pc \in {"primary", "secondary"} /\ frame'[f].pc = "backoff"
             => /\ S_Notification(f).title = "Retrying Connection"
                /\ S_Notification(f).attempt \in 1..MAX_RETRIES
                /\ obs.f = f /\ obs.alone
                   => S_Notification(f).attempt = obs'.retries
          /\ frame[f].pc # "done" /\ frame'[f].pc = "done"
             /\ frame'[f].outcome = "terminal"
             => S_Notification(f).title = "Connection Failed"
          /\ frame[f].pc # "done" /\ frame'[f].pc = "done"
             /\ frame'[f].outcome \in {"primary", "secondary"}
             => S_Notification(f) # [title |-> "none", attempt |-> 0]]_vars

C34_BudgetPerCall == obs.f # -1 => obs.retries <= MAX_RETRIES

\* C35: the step in which a getNextItem call returns an item advances the
\* cursor by one position: currentIndex grows by 1, or is 1 after a new
\* batch was installed, and the item returned is the one before the cursor.
C35_CursorAdvances ==
    [][IsMedia(rret'.val)
       => /\ currentIndex' = currentIndex + 1 \/ currentIndex' = 1
          /\ currentIndex' \in DOMAIN currentItems'
          /\ currentItems'[currentIndex'] = rret'.val]_vars

\* C36: createCacheKey leaves the caller's settings.tags array as it was:
\* the order of the tags after the call is the order before it.
C36_TagsUnchanged ==
    sut = "createCacheKey" => output["settings.tags"] = input.tags

\* C37: when Player mounts (the hook is first called with null) and valid
\* settings with at least one tag are saved, useMediaPlayer eventually
\* calls getNextItem for the first item.
C37_FirstItemRequested ==
    (sut = "player" /\ initialSettings = NoSettings /\ saved = "tags")
        ~> (issued > 0)

====
